---- MODULE Spec2Model ----
(***************************************************************************)
(* A model of the execution engine of the VIXL AArch64 simulator           *)
(* (src/aarch64/simulator-aarch64.cc).                                     *)
(*                                                                         *)
(* A 64-bit value is the set of its set bit positions, a subset of 0..63:  *)
(* TLC's integers are 32 bits wide, and the simulator's arithmetic is on   *)
(* uint64_t/int64_t.  The operators below are the C++ operators on that    *)
(* representation: & is intersection, | is union, ~ is complement in       *)
(* 0..63, + is a ripple-carry adder that drops the carry out of bit 63.    *)
(***************************************************************************)
EXTENDS Integers, FiniteSets, Sequences, TLC

VARIABLES
  xreg,           \* registers_[0..31]; slot 31 is the stack pointer
  nzcv,           \* nzcv_: the four flags
  mem,            \* the simulated address space, byte by byte
  local_monitor,  \* local_monitor_: the reservation (address, size)
  pc,             \* pc_
  btype,          \* btype_
  next_btype,     \* next_btype_
  guard_pages,    \* guard_pages_
  tbi,            \* the configured top-byte-ignore setting per pointer kind
  state,          \* "run", or "abort" after VIXL_ABORT / an alignment fault
  instr,          \* the instruction (or helper call) executed last
  pre,            \* the architectural state that instruction started from
  hist,           \* the instructions executed so far, oldest first
  program,        \* what the simulated program fixes: operand encodings, arguments
  ret,            \* what the helper called last returned
  vector_length,  \* vector_length_, in bits
  vregisters,     \* vregisters_: per Z register its byte size and D lanes
  pregisters,     \* pregisters_: per P register its byte size and H lanes
  fpcr,           \* fpcr_
  cpu_features,   \* the features of cpu_features_auditor_
  saved_cpu_features_,  \* saved_cpu_features_, oldest first
  instances       \* which Simulator is executing, and the other ones' own state

vars == <<xreg, nzcv, mem, local_monitor, pc, btype, next_btype, guard_pages,
          tbi, state, instr, pre, hist, program, ret, vector_length,
          vregisters, pregisters, fpcr, cpu_features, saved_cpu_features_,
          instances>>

----------------------------------------------------------------------------
(* 64-bit values *)

kXRegSize == 64
kWRegSize == 32

Bits(n) == 0..(n - 1)
Val64 == SUBSET Bits(kXRegSize)
Zero == {}
AllOnes == Bits(kXRegSize)

And(a, b) == a \cap b
Or(a, b) == a \cup b
Xor(a, b) == (a \ b) \cup (b \ a)
Not(a) == AllOnes \ a
Shl(a, k) == {i + k : i \in a} \cap AllOnes
Shr(a, k) == {i - k : i \in a} \cap AllOnes
Bit(a, i) == IF i \in a THEN 1 ELSE 0

\* A natural number below 2^31 as a 64-bit value.
NatToBits(n) == {i \in 0..30 : (n \div (2 ^ i)) % 2 = 1}

RECURSIVE BitsToNat(_)
\* A 64-bit value below 2^31 as a natural number.
BitsToNat(a) ==
  IF a = {} THEN 0
  ELSE LET i == CHOOSE j \in a : TRUE IN (2 ^ i) + BitsToNat(a \ {i})

\* The 16-bit limb k of a 64-bit value, as a number.
Limb(a, k) ==
  BitsToNat({i - 16 * k :
               i \in a \cap (16 * k)..(16 * k + 16 - 1)})

RECURSIVE LimbSum(_, _, _, _)
\* Limb k of a + b + cin before reduction: the limbs of a and b plus the
\* carry out of limb k - 1.
LimbSum(a, b, cin, k) ==
  Limb(a, k) + Limb(b, k) +
  (IF k = 0 THEN cin ELSE LimbSum(a, b, cin, k - 1) \div 65536)

\* uint64_t addition: a + b + cin modulo 2^64.
Add64(a, b, cin) ==
  UNION {{16 * k + i : i \in NatToBits(LimbSum(a, b, cin, k) % 65536)} :
           k \in 0..3}
Sub64(a, b) == Add64(a, Not(b), 1)
Neg64(a) == Add64(Not(a), Zero, 1)

MaxBit(s) == CHOOSE i \in s : \A j \in s : j <= i
\* a < b as uint64_t
ULT(a, b) == a # b /\ MaxBit(Xor(a, b)) \in b
\* a < b as two's-complement numbers of n bits
SLT(a, b, n) ==
  LET sa == (n - 1) \in a
      sb == (n - 1) \in b
  IN IF sa # sb THEN sa ELSE ULT(a \cap Bits(n), b \cap Bits(n))

----------------------------------------------------------------------------
(* Flags *)

Flags == [N : 0..1, Z : 0..1, C : 0..1, V : 0..1]
NoFlag == [N |-> 0, Z |-> 0, C |-> 0, V |-> 0]

CalcNFlag(result, reg_size) == Bit(result, reg_size - 1)
CalcZFlag(result) == IF result = Zero THEN 1 ELSE 0

\* The C flag of AddWithCarry, by comparison against the maximum unsigned
\* integer as the code computes it.
AddWithCarryC_NoCarryIn(reg_size, left, right, carry_in) ==
  LET max_uint == Bits(reg_size)
  IN ULT(max_uint, left) \/ ULT(Sub64(max_uint, left), right)

AddWithCarryC(reg_size, left, right, carry_in) ==
  LET max_uint == Bits(reg_size)
      max_uint_2op == Sub64(max_uint, NatToBits(carry_in))
  IN ULT(max_uint_2op, left) \/ ULT(Sub64(max_uint_2op, left), right)

\* Simulator::AddWithCarry: the result and the flags it computes.  The
\* caller stores the flags in nzcv_ when set_flags is true.
AddWithCarry(reg_size, left0, right0, carry_in) ==
  LET reg_mask == Bits(reg_size)
      sign_mask == {reg_size - 1}
      left == And(left0, reg_mask)
      right == And(right0, reg_mask)
      result == And(Add64(left, right, carry_in), reg_mask)
      C == AddWithCarryC(reg_size, left, right, carry_in)
      left_sign == And(left, sign_mask)
      right_sign == And(right, sign_mask)
      result_sign == And(result, sign_mask)
      V == (left_sign = right_sign) /\ (left_sign # result_sign)
  IN [result |-> result,
      flags |-> [N |-> CalcNFlag(result, reg_size),
                 Z |-> CalcZFlag(result),
                 C |-> IF C THEN 1 ELSE 0,
                 V |-> IF V THEN 1 ELSE 0]]

----------------------------------------------------------------------------
(* The architectural state *)

kZeroRegCode == 31
kLinkRegCode == 30
\* The general registers the modelled instructions name.  Slot 31 of the
\* register file is the stack pointer.
RegCodes == {0, 1, 2, 3, 4, 16, 17, kLinkRegCode, kZeroRegCode}

BTypes == {"DefaultBType", "BranchFromUnguardedOrToIP",
           "BranchFromGuardedNotToIP", "BranchAndLink"}
PointerTypes == {"kDataPointer", "kInstructionPointer"}

kEndOfSimAddress == Zero
\* The value ResetRegisters writes to every general register.
kBadBeef == {0, 1, 2, 3, 5, 6, 7, 9, 10, 11, 12, 13, 15, 16, 18, 19, 20, 21, 23, 25, 27}

\* The bytes of simulated memory the model keeps: addresses 0..MemSize-1.
MemSize == 32
MemAddrs == 0..(MemSize - 1)
Byte == SUBSET Bits(8)

\* local_monitor_ after Clear().
MonitorClear == [address |-> Zero, size |-> 0]

ResetXRegs == [c \in RegCodes |->
                 IF c = kLinkRegCode THEN kEndOfSimAddress
                 ELSE IF c = kZeroRegCode THEN Zero   \* WriteSp(tos), 16-byte aligned
                 ELSE kBadBeef]

\* The vector and predicate registers the modelled instructions name.
ZRegCodes == {0, 1, 31}
PRegCodes == {0, 1, 15}

kZRegMinSize == 128
kZRegMaxSize == 2048
kDRegSizeInBytes == 8
kHRegSizeInBytes == 2

GetVectorLengthInBytes(vl) == vl \div 8
GetPredicateLengthInBytes(vl) == vl \div 64

\* 0x7ff0f0007f80f000 | (0x0000000100000000 * i) | (0x0000000000000001 * lane)
NaNBits(i, lane) ==
  Or(Or(Shl(NatToBits(2146496512), 32), NatToBits(2139156480)),
     Or(Shl(NatToBits(i), 32), NatToBits(lane)))

\* A register's storage with lanes 0 .. lane_count - 1 written as
\* fill[lane]; the lanes above keep what they held, if they ever held
\* anything.
InsertLanes(value, lane_count, fill) ==
  [lane \in (DOMAIN value) \cup (0..(lane_count - 1)) |->
     IF lane < lane_count THEN fill[lane] ELSE value[lane]]

\* Simulator::ResetVRegisters at vector length vl.
ResetVRegisters(vregs, vl) ==
  LET lane_count == GetVectorLengthInBytes(vl) \div kDRegSizeInBytes
  IN [i \in ZRegCodes |->
        LET nan_bits == [lane \in 0..(lane_count - 1) |-> NaNBits(i, lane)]
        IN [vregs[i] EXCEPT !.value = InsertLanes(@, lane_count, nan_bits)]]

\* Simulator::ResetPRegisters at vector length vl.
ResetPRegisters(pregs, vl) ==
  LET lane_count == GetPredicateLengthInBytes(vl) \div kHRegSizeInBytes
  IN [i \in PRegCodes |->
        LET bits == [lane \in 0..(lane_count - 1) |-> 256 * lane + i]
        IN [pregs[i] EXCEPT !.value = InsertLanes(@, lane_count, bits)]]

\* SimRegisterBase::SetSizeInBytes for every register of a file.
SetSizeInBytes(regs, size) ==
  [i \in DOMAIN regs |-> [regs[i] EXCEPT !.size_in_bytes = size]]

\* SetVectorLengthInBits without the reset fill.
SetVectorLength_NoReset(vregs, pregs, vl) ==
  [vregisters |-> SetSizeInBytes(vregs, GetVectorLengthInBytes(vl)),
   pregisters |-> SetSizeInBytes(pregs, GetPredicateLengthInBytes(vl))]

\* Simulator::SetVectorLengthInBits(vector_length), on the two register
\* files.
SetVectorLength(vregs, pregs, vl) ==
  [vregisters |->
     ResetVRegisters(SetSizeInBytes(vregs, GetVectorLengthInBytes(vl)), vl),
   pregisters |->
     ResetPRegisters(SetSizeInBytes(pregs, GetPredicateLengthInBytes(vl)), vl)]

\* The register files as their constructors leave them: no lane written.
UnwrittenRegisters(codes) ==
  [i \in codes |-> [size_in_bytes |-> 0, value |-> <<>>]]

\* SimSystemRegister::DefaultValueFor(FPCR).
DefaultFpcr == Zero

\* Two features, by their codes as list elements.
kSomeFeature == 1
kOtherFeature == 2

\* The features CPUFeatures knows: CPUFeatures::All().
AllCPUFeatures == {kSomeFeature, kOtherFeature}

\* A process with one Simulator.
OneInstance == instances = [running |-> 1, parked |-> <<>>]

\* The CPU features after the constructor: CPUFeatures::All(), nothing saved.
FeaturesConstructed ==
  /\ cpu_features = AllCPUFeatures
  /\ saved_cpu_features_ = <<>>

\* The vector state after the constructor: SetVectorLengthInBits(
\* kZRegMinSize), then ResetState.
VectorsConstructed ==
  LET files == SetVectorLength(UnwrittenRegisters(ZRegCodes),
                               UnwrittenRegisters(PRegCodes), kZRegMinSize)
  IN /\ vector_length = kZRegMinSize
     /\ vregisters = ResetVRegisters(files.vregisters, kZRegMinSize)
     /\ pregisters = ResetPRegisters(files.pregisters, kZRegMinSize)
     /\ fpcr = DefaultFpcr

Snapshot == [xreg |-> xreg, nzcv |-> nzcv, mem |-> mem,
             local_monitor |-> local_monitor, pc |-> pc, btype |-> btype,
             next_btype |-> next_btype, state |-> state,
             vector_length |-> vector_length, vregisters |-> vregisters,
             pregisters |-> pregisters, fpcr |-> fpcr]

\* The state the constructor and ResetState leave, the flags aside.
Constructed ==
  /\ xreg = ResetXRegs
  /\ mem = [a \in MemAddrs |-> Zero]
  /\ local_monitor = MonitorClear
  /\ pc = Zero
  /\ btype = "DefaultBType"
  /\ next_btype = "DefaultBType"
  /\ guard_pages = FALSE
  /\ tbi = [t \in PointerTypes |-> TRUE]
  /\ state = "run"
  /\ VectorsConstructed
  /\ FeaturesConstructed
  /\ OneInstance

----------------------------------------------------------------------------
(* Register and memory access *)

\* ReadXRegister(code, r31mode): register 31 reads as zero unless the access
\* names the stack pointer.
ReadXRegister(regs, code, r31mode) ==
  IF code = kZeroRegCode /\ r31mode = "Reg31IsZeroRegister" THEN Zero
  ELSE regs[code]

\* ReadWRegister(code), as the 32 bits read.
ReadWRegister(regs, code) ==
  And(ReadXRegister(regs, code, "Reg31IsZeroRegister"), Bits(kWRegSize))

\* ReadRegister<T>(code) for a T of nbytes bytes, as the bits read.
ReadRegisterT(regs, nbytes, code) ==
  And(ReadXRegister(regs, code, "Reg31IsZeroRegister"), Bits(8 * nbytes))

\* An n-bit two's-complement number converted to int64_t.
SignExtend(v, n) ==
  IF (n - 1) \in v THEN Or(And(v, Bits(n)), AllOnes \ Bits(n)) ELSE And(v, Bits(n))

\* WriteRegister(reg_size, code, value, r31mode): a write to the zero
\* register is discarded; a W write clears the upper half of the slot.
WriteRegister(regs, reg_size, code, value, r31mode) ==
  IF code = kZeroRegCode /\ r31mode = "Reg31IsZeroRegister" THEN regs
  ELSE [regs EXCEPT ![code] = And(value, Bits(reg_size))]

WriteXRegister(regs, code, value) ==
  WriteRegister(regs, kXRegSize, code, value, "Reg31IsZeroRegister")
WriteWRegister(regs, code, value) ==
  WriteRegister(regs, kWRegSize, code, value, "Reg31IsZeroRegister")

\* WriteRegister<T>(code, value) for an unsigned T of nbytes bytes.
WriteRegisterT(regs, nbytes, code, value) ==
  WriteRegister(regs, IF nbytes = 8 THEN kXRegSize ELSE kWRegSize, code,
                And(value, Bits(8 * nbytes)), "Reg31IsZeroRegister")

\* The address is one of the bytes the model keeps, with nbytes after it.
AddrInMem(address, nbytes) ==
  /\ address \subseteq Bits(8)
  /\ BitsToNat(address) + nbytes <= MemSize

\* Memory::Read<T>(address) for a T of nbytes bytes (little-endian host).
MemRead(m, address, nbytes) ==
  LET a == BitsToNat(address)
  IN UNION {{8 * k + i : i \in m[a + k]} : k \in 0..(nbytes - 1)}

\* Memory::Write<T>(address, value) for a T of nbytes bytes.
MemWrite(m, address, nbytes, value) ==
  LET a == BitsToNat(address)
  IN [x \in MemAddrs |->
        IF x >= a /\ x < a + nbytes
        THEN {i - 8 * (x - a) : i \in value \cap (8 * (x - a))..(8 * (x - a) + 7)}
        ELSE m[x]]

\* SimExclusiveLocalMonitor::IsExclusive(address, size)
LocalIsExclusive(monitor, address, size) ==
  size = monitor.size /\ address = monitor.address
\* SimExclusiveLocalMonitor::MarkExclusive(address, size)
MarkExclusive(address, size) == [address |-> address, size |-> size]

\* CheckIsValidUnalignedAtomicAccess(rn, address, access_size) returns
\* without raising the alignment fault.
IsValidAtomicAccess(rn, address, access_size) ==
  /\ BitsToNat(address) % access_size = 0
  /\ rn = kZeroRegCode => BitsToNat(address) % 16 = 0

----------------------------------------------------------------------------
(* AddWithCarry as a function of its arguments *)

\* How far around each boundary value the operands of AddWithCarry range.
MaxDelta == 1

kWSignBit == {31}
kWCarryBit == {32}
kXSignBit == {63}
BoundaryBases == {Zero, kWSignBit, kWCarryBit, kXSignBit}
BoundaryValues ==
  UNION {{Add64(b, NatToBits(k), 0), Sub64(b, NatToBits(k))} :
           b \in BoundaryBases, k \in 0..MaxDelta}

\* The arguments of a call AddWithCarry(reg_size, set_flags, left, right,
\* carry_in) about to be made, with any flags in nzcv_.
InitAWC ==
  /\ Constructed
  /\ nzcv \in {NoFlag, [N |-> 1, Z |-> 1, C |-> 1, V |-> 1]}
  /\ \E reg_size \in {kWRegSize, kXRegSize}, set_flags \in BOOLEAN,
        left \in BoundaryValues, right \in BoundaryValues, carry_in \in 0..1 :
       program = [op |-> "AddWithCarry", reg_size |-> reg_size,
                  set_flags |-> set_flags, left |-> left, right |-> right,
                  carry_in |-> carry_in]
  /\ instr = [op |-> "reset"]
  /\ pre = [op |-> "none"]
  /\ hist = <<>>
  /\ ret = Zero

\* The call runs.
CallAddWithCarry ==
  /\ state = "run"
  /\ hist = <<>>
  /\ LET r == AddWithCarry(program.reg_size, program.left, program.right,
                           program.carry_in)
     IN /\ ret' = r.result
        /\ nzcv' = IF program.set_flags THEN r.flags ELSE nzcv
  /\ instr' = program
  /\ pre' = Snapshot
  /\ hist' = <<program>>
  /\ UNCHANGED <<xreg, mem, local_monitor, pc, btype, next_btype,
                 guard_pages, tbi, state, program, vector_length, vregisters,
                 pregisters, fpcr, cpu_features, saved_cpu_features_,
                 instances>>

NextAWC == CallAddWithCarry
SpecAWC == InitAWC /\ [][NextAWC]_vars

\* 1 iff the exact sum of the low n bits of a, the low n bits of b and cin
\* is at least 2^i (i <= n): some position below i generates a carry (both
\* bits set, or cin below bit 0) and every position between propagates it
\* (at least one bit set).
CarryInto(a, b, cin, i) ==
  IF \/ cin = 1 /\ Bits(i) \subseteq (a \cup b)
     \/ \E j \in Bits(i) : j \in a /\ j \in b /\ (j + 1)..(i - 1) \subseteq (a \cup b)
  THEN 1 ELSE 0

\* The low n bits of the exact sum a + b + cin, bit by bit.
SumBits(a, b, cin, n) ==
  {i \in Bits(n) : (Bit(a, i) + Bit(b, i) + CarryInto(a, b, cin, i)) % 2 = 1}

\* C1: AddWithCarry returns (left + right + carry_in) mod 2^reg_size, and
\* with set_flags it sets N to bit reg_size-1 of the result, Z iff the
\* result is 0, C iff the sum of the reg_size-bit operands and carry_in is
\* at least 2^reg_size, and V iff the operands' sign bits are equal and
\* differ from the result's; without set_flags the flags are unchanged.
C1_AddWithCarry ==
  instr.op = "AddWithCarry" =>
    LET n == instr.reg_size
        l == instr.left
        r == instr.right
        sum == SumBits(l, r, instr.carry_in, n)
    IN /\ ret = sum
       /\ instr.set_flags =>
            /\ nzcv.N = Bit(sum, n - 1)
            /\ nzcv.Z = 1 <=> (sum = Zero)
            /\ nzcv.C = CarryInto(l, r, instr.carry_in, n)
            /\ nzcv.V = 1 <=> (Bit(l, n - 1) = Bit(r, n - 1)
                               /\ Bit(l, n - 1) # Bit(sum, n - 1))
       /\ ~instr.set_flags => nzcv = pre.nzcv

\* A 32-bit flag-setting call MAX + 0 + 1: a carry out produced only by
\* carry_in, with a zero result.
C1_Witness ==
  /\ instr.op = "AddWithCarry"
  /\ instr.set_flags
  /\ instr.reg_size = kWRegSize
  /\ instr.left = Bits(kWRegSize)
  /\ instr.right = Zero
  /\ instr.carry_in = 1
  /\ nzcv = [N |-> 0, Z |-> 1, C |-> 1, V |-> 0]
  /\ ret = Zero

----------------------------------------------------------------------------
(* Instruction execution *)

\* What ExecuteInstruction records of the instruction i it ran.
Logged(i) ==
  /\ instr' = i
  /\ pre' = Snapshot
  /\ hist' = Append(hist, i)
  /\ UNCHANGED <<guard_pages, tbi, program, ret, instances>>

\* An instruction that leaves the CPU features and their saved copies alone.
Recorded(i) ==
  /\ Logged(i)
  /\ UNCHANGED <<cpu_features, saved_cpu_features_>>

\* An instruction that leaves the vector state and FPCR alone.
Executed(i) ==
  /\ Recorded(i)
  /\ UNCHANGED <<vector_length, vregisters, pregisters, fpcr>>

\* An UpdateBType that keeps the BType when no next BType was set.
Advance_KeepsBType ==
  /\ pc' = Add64(pc, NatToBits(4), 0)
  /\ btype' = IF next_btype = "DefaultBType" THEN btype ELSE next_btype
  /\ next_btype' = "DefaultBType"

\* IncrementPc and UpdateBType after a visitor that wrote neither the PC
\* nor the next BType.
Advance ==
  /\ pc' = Add64(pc, NatToBits(4), 0)
  /\ btype' = next_btype
  /\ next_btype' = "DefaultBType"

\* VIXL_ABORT_WITH_MSG, VIXL_ALIGNMENT_EXCEPTION: the process ends with the
\* state the handler had reached, here before any of its writes.
Abort(i) ==
  /\ state' = "abort"
  /\ Executed(i)
  /\ UNCHANGED <<xreg, nzcv, mem, local_monitor, pc, btype, next_btype>>

\* Simulator::VisitLoadStoreExclusive, the load/store-exclusive and
\* load-acquire/store-release encodings (the default case of the switch).
\* global_pass is the answer of global_monitor_.IsExclusive, which this
\* instance does not control; maybe_clear is whether MaybeClear clears.
\* The local monitor after a store that leaves a reservation in place
\* unless MaybeClear clears it.
MonitorAfterStore_KeepsReservation(monitor, is_exclusive, maybe_clear) ==
  IF maybe_clear THEN MonitorClear ELSE monitor

\* The local monitor after a store of this handler: an exclusive store
\* clears it, any other store may.
MonitorAfterStore(monitor, is_exclusive, maybe_clear) ==
  IF is_exclusive \/ maybe_clear THEN MonitorClear ELSE monitor

\* The local monitor after a load that keeps a reservation already held.
MonitorAfterLoad_KeepsReservation(monitor, is_exclusive, address, access_size) ==
  IF ~is_exclusive THEN MonitorClear
  ELSE IF monitor # MonitorClear THEN monitor
  ELSE MarkExclusive(address, access_size)

\* The local monitor after a load of this handler: an exclusive load marks
\* its location, any other load clears the monitor.
MonitorAfterLoad(monitor, is_exclusive, address, access_size) ==
  IF is_exclusive THEN MarkExclusive(address, access_size) ELSE MonitorClear

\* The status an exclusive store writes to Rs.
StoreExclusiveStatus(do_store) == IF do_store THEN Zero ELSE NatToBits(1)

\* do_store from the local monitor alone.
StoreExclusiveDoStore_LocalOnly(monitor, address, access_size, global_pass) ==
  LocalIsExclusive(monitor, address, access_size)

\* do_store of an exclusive store: both monitors must agree.
StoreExclusiveDoStore(monitor, address, access_size, global_pass) ==
  LocalIsExclusive(monitor, address, access_size) /\ global_pass

VisitLoadStoreExclusive(rs, rt, rt2, rn, is_exclusive, is_load, is_pair, size_log2, global_pass, maybe_clear) ==
  LET element_size == 2 ^ size_log2
      access_size == IF is_pair THEN element_size * 2 ELSE element_size
      address == ReadXRegister(xreg, rn, "Reg31IsStackPointer")
      i == [op |-> "LoadStoreExclusive", rs |-> rs, rt |-> rt, rt2 |-> rt2,
            rn |-> rn, is_exclusive |-> is_exclusive, is_load |-> is_load,
            is_pair |-> is_pair, element_size |-> element_size,
            access_size |-> access_size, address |-> address,
            global_pass |-> global_pass, maybe_clear |-> maybe_clear]
      address2 == Add64(address, NatToBits(element_size), 0)
      \* the load: W forms for 1, 2 and 4 bytes, the X form for 8
      loaded1 == WriteRegisterT(xreg, element_size, rt,
                                MemRead(mem, address, element_size))
      loaded == IF is_pair
                THEN WriteRegisterT(loaded1, element_size, rt2,
                                    MemRead(mem, address2, element_size))
                ELSE loaded1
      \* the store
      do_store == IF is_exclusive
                  THEN StoreExclusiveDoStore(local_monitor, address,
                                             access_size, global_pass)
                  ELSE TRUE
      status == IF is_exclusive
                THEN WriteWRegister(xreg, rs, StoreExclusiveStatus(do_store))
                ELSE xreg
      mem1 == MemWrite(mem, address, element_size,
                       ReadRegisterT(status, element_size, rt))
      mem2 == IF is_pair
              THEN MemWrite(mem1, address2, element_size,
                            ReadRegisterT(status, element_size, rt2))
              ELSE mem1
  IN /\ state = "run"
     /\ AddrInMem(address, access_size)
     /\ IF ~IsValidAtomicAccess(rn, address, access_size) THEN Abort(i)
        ELSE /\ IF is_load
                THEN /\ local_monitor' = MonitorAfterLoad(local_monitor,
                                                          is_exclusive,
                                                          address, access_size)
                     /\ xreg' = loaded
                     /\ mem' = mem
                ELSE /\ xreg' = status
                     /\ local_monitor' = MonitorAfterStore(local_monitor,
                                                           is_exclusive,
                                                           maybe_clear)
                     /\ mem' = IF do_store THEN mem2 ELSE mem
             /\ Advance
             /\ Executed(i)
             /\ UNCHANGED <<nzcv, state>>

\* Simulator::VisitSystem, CLREX.
VisitSystem_CLREX ==
  /\ state = "run"
  /\ local_monitor' = MonitorClear
  /\ Advance
  /\ Executed([op |-> "CLREX"])
  /\ UNCHANGED <<xreg, nzcv, mem, state>>

\* Simulator::CompareAndSwapHelper<T> for a T of element_size bytes.
\* The comparison of CompareAndSwapHelper, always succeeding.
CompareAndSwapMatches_Always(data, comparevalue) == TRUE

\* The comparison of CompareAndSwapHelper.
CompareAndSwapMatches(data, comparevalue) == data = comparevalue

CompareAndSwapHelper(element_size, rs, rt, rn) ==
  LET address == ReadXRegister(xreg, rn, "Reg31IsStackPointer")
      i == [op |-> "CompareAndSwap", rs |-> rs, rt |-> rt, rn |-> rn,
            element_size |-> element_size, address |-> address]
      comparevalue == ReadRegisterT(xreg, element_size, rs)
      newvalue == ReadRegisterT(xreg, element_size, rt)
      data == MemRead(mem, address, element_size)
  IN /\ state = "run"
     /\ AddrInMem(address, element_size)
     /\ IF ~IsValidAtomicAccess(rn, address, element_size) THEN Abort(i)
        ELSE /\ local_monitor' = MonitorClear
             /\ mem' = IF CompareAndSwapMatches(data, comparevalue)
                       THEN MemWrite(mem, address, element_size, newvalue)
                       ELSE mem
             /\ xreg' = WriteRegisterT(xreg, element_size, rs, data)
             /\ Advance
             /\ Executed(i)
             /\ UNCHANGED <<nzcv, state>>
\* Simulator::VisitSystem, the hint NOP.
VisitSystem_NOP ==
  /\ state = "run"
  /\ Advance
  /\ Executed([op |-> "NOP"])
  /\ UNCHANGED <<xreg, nzcv, mem, local_monitor, state>>

----------------------------------------------------------------------------
(* Exclusive access sequences *)

\* The number of instructions of an exclusive-access sequence.
MaxExclSteps == 3

\* A 64-bit value from its bytes, least significant first.
FromBytes(bytes) ==
  UNION {{8 * (k - 1) + i : i \in NatToBits(bytes[k])} : k \in 1..Len(bytes)}

Data1 == FromBytes(<<17, 34, 51, 68, 85, 102, 119, 136>>)
Data2 == FromBytes(<<161, 162, 163, 164, 165, 166, 167, 168>>)
\* Memory whose bytes all differ from each other and from the data.
PatternMem == [a \in MemAddrs |-> NatToBits(192 + a)]

\* The access shapes of the exclusive encodings: LDXRB/STXRB, LDXRH/STXRH,
\* LDXR/STXR of W and X, LDXP/STXP of W and X.
ExclShapes ==
  {[size_log2 |-> n, is_pair |-> FALSE] : n \in 0..3} \cup
  {[size_log2 |-> n, is_pair |-> TRUE] : n \in 2..3}

\* x0, x1: the data to store; x2, sp, x17: the addresses 0, 16 and 4;
\* x3, x4: the destinations of loads; x16: the status register.
ExclXRegs ==
  [c \in RegCodes |->
     CASE c = 0 -> Data1
       [] c = 1 -> Data2
       [] c = 2 -> Zero
       [] c = 17 -> NatToBits(4)
       [] c = kZeroRegCode -> NatToBits(16)
       [] OTHER -> kBadBeef]

InitExcl ==
  /\ xreg = ExclXRegs
  /\ nzcv = NoFlag
  /\ mem = PatternMem
  /\ local_monitor = MonitorClear
  /\ pc = Zero
  /\ btype = "DefaultBType"
  /\ next_btype = "DefaultBType"
  /\ guard_pages = FALSE
  /\ tbi = [t \in PointerTypes |-> TRUE]
  /\ state = "run"
  /\ program \in ExclShapes
  /\ instr = [op |-> "reset"]
  /\ pre = [op |-> "none"]
  /\ hist = <<>>
  /\ ret = Zero
  /\ VectorsConstructed
  /\ FeaturesConstructed
  /\ OneInstance

ExclStep == Len(hist) < MaxExclSteps

\* The access size of the program's exclusive instructions.
ProgramAccessSize ==
  (IF program.is_pair THEN 2 ELSE 1) * 2 ^ program.size_log2

\* LDXR, LDXRB, LDXRH, LDXP (by the program's shape) at address 0 or at sp.
Excl_LoadExclusive ==
  /\ ExclStep
  /\ \E rn \in {2, kZeroRegCode} :
       VisitLoadStoreExclusive(16, 3, 4, rn, TRUE, TRUE, program.is_pair,
                               program.size_log2, FALSE, FALSE)

\* STXR, STXRB, STXRH, STXP at any of the three addresses, with the status
\* to x16 or to wzr.  The global monitor is asked only when the local one
\* agrees.
Excl_StoreExclusive ==
  /\ ExclStep
  /\ \E rn \in {2, 17, kZeroRegCode}, rs \in {16, kZeroRegCode} :
     \E global_pass \in
          IF LocalIsExclusive(local_monitor,
                              ReadXRegister(xreg, rn, "Reg31IsStackPointer"),
                              ProgramAccessSize)
          THEN BOOLEAN ELSE {FALSE} :
       VisitLoadStoreExclusive(rs, 0, 1, rn, TRUE, FALSE, program.is_pair,
                               program.size_log2, global_pass, FALSE)

\* STLR, STLRB, STLRH at address 0.
Excl_StoreRelease ==
  /\ ExclStep
  /\ \E maybe_clear \in BOOLEAN :
       VisitLoadStoreExclusive(16, 0, 1, 2, FALSE, FALSE, FALSE,
                               program.size_log2, FALSE, maybe_clear)

\* LDAR, LDARB, LDARH at address 0.
Excl_LoadAcquire ==
  /\ ExclStep
  /\ VisitLoadStoreExclusive(16, 3, 4, 2, FALSE, TRUE, FALSE,
                             program.size_log2, FALSE, FALSE)

Excl_CLREX == ExclStep /\ VisitSystem_CLREX

\* CAS w16, w0, [x2]
Excl_CAS == ExclStep /\ CompareAndSwapHelper(4, 16, 0, 2)

Excl_NOP == ExclStep /\ VisitSystem_NOP

NextExcl ==
  \/ Excl_LoadExclusive
  \/ Excl_StoreExclusive
  \/ Excl_StoreRelease
  \/ Excl_LoadAcquire
  \/ Excl_CLREX
  \/ Excl_CAS
  \/ Excl_NOP

SpecExcl == InitExcl /\ [][NextExcl]_vars

IsLoadExclusive(i) ==
  i.op = "LoadStoreExclusive" /\ i.is_exclusive /\ i.is_load
IsStoreExclusive(i) ==
  i.op = "LoadStoreExclusive" /\ i.is_exclusive /\ ~i.is_load
\* The instruction passed CheckIsValidUnalignedAtomicAccess.
IsAligned(i) == IsValidAtomicAccess(i.rn, i.address, i.access_size)

\* The last instruction is a store-exclusive that follows a load-exclusive
\* of the same address and access size with nothing but instructions that
\* do not touch the monitor (NOP) in between.
StoreFollowsLoadExclusive ==
  /\ IsStoreExclusive(instr)
  /\ \E j \in 1..(Len(hist) - 1) :
       /\ IsLoadExclusive(hist[j])
       /\ hist[j].address = instr.address
       /\ hist[j].access_size = instr.access_size
       /\ \A k \in (j + 1)..(Len(hist) - 1) : hist[k].op = "NOP"

\* The store-exclusive executed last stored Rt (and Rt2 of a pair).
StoredRt ==
  /\ MemRead(mem, instr.address, instr.element_size) =
       ReadRegisterT(pre.xreg, instr.element_size, instr.rt)
  /\ instr.is_pair =>
       MemRead(mem, Add64(instr.address, NatToBits(instr.element_size), 0),
               instr.element_size) =
         ReadRegisterT(pre.xreg, instr.element_size, instr.rt2)

\* C2 as stated: a store-exclusive that follows a load-exclusive of the same
\* address and size with no monitor-clearing instruction in between writes
\* status 0 and performs the store.
C2_AsStated ==
  StoreFollowsLoadExclusive =>
    /\ ReadWRegister(xreg, instr.rs) = Zero
    /\ StoredRt

\* C2, amended: such a store-exclusive succeeds (status 0, memory holds the
\* stored value) exactly when the global monitor answers that the
\* reservation is exclusive; when it answers no, the status is 1 (in a
\* status register other than wzr) and memory is unchanged.
C2_StoreExclusiveSucceeds ==
  StoreFollowsLoadExclusive =>
    /\ state = "run"
    /\ instr.global_pass =>
         /\ ReadWRegister(xreg, instr.rs) = Zero
         /\ StoredRt
    /\ ~instr.global_pass =>
         /\ instr.rs # kZeroRegCode => ReadWRegister(xreg, instr.rs) = NatToBits(1)
         /\ mem = pre.mem

\* A successful STXP of X registers at sp two instructions after the LDXP:
\* status 0 in x16 and both elements written.
C2_Witness ==
  /\ StoreFollowsLoadExclusive
  /\ Len(hist) = 3
  /\ instr.global_pass
  /\ instr.is_pair /\ instr.element_size = 8
  /\ instr.rn = kZeroRegCode /\ instr.rs = 16
  /\ xreg[16] = Zero
  /\ MemRead(mem, NatToBits(16), 8) = Data1
  /\ MemRead(mem, NatToBits(24), 8) = Data2
  /\ mem # pre.mem

\* The last instruction is a store-exclusive, and since the last exclusive
\* store or CLREX before it there has been no load-exclusive.
StoreWithoutReservation ==
  /\ IsStoreExclusive(instr)
  /\ \E j \in 1..(Len(hist) - 1) :
       /\ IsStoreExclusive(hist[j]) \/ hist[j].op = "CLREX"
       /\ \A k \in (j + 1)..(Len(hist) - 1) : ~IsLoadExclusive(hist[k])

\* C3: a store-exclusive without a live reservation fails: status 1 (in a
\* status register other than wzr), memory unchanged, the local monitor
\* clear, and no abort; only the alignment fault of a misaligned address
\* ends the simulation, and it too leaves memory unchanged.
C3_StoreExclusiveFails ==
  StoreWithoutReservation =>
    /\ mem = pre.mem
    /\ local_monitor = MonitorClear
    /\ state = "abort" <=> ~IsAligned(instr)
    /\ (state = "run" /\ instr.rs # kZeroRegCode) =>
         ReadWRegister(xreg, instr.rs) = NatToBits(1)

\* LDXR, a successful STXR, then a second STXR to the same address: it
\* fails with status 1.
C3_Witness ==
  /\ StoreWithoutReservation
  /\ Len(hist) = 3
  /\ IsLoadExclusive(hist[1])
  /\ IsStoreExclusive(hist[2]) /\ hist[2].global_pass
  /\ hist[2].address = instr.address /\ hist[1].address = instr.address
  /\ instr.rs = 16 /\ xreg[16] = NatToBits(1) /\ pre.xreg[16] = Zero
  /\ state = "run"

----------------------------------------------------------------------------
(* Atomic memory instructions *)

\* The operations of VisitAtomicMemory that modify memory.
AtomicMemorySimpleOps ==
  {"LDADD", "LDCLR", "LDEOR", "LDSET", "LDSMAX", "LDSMIN", "LDUMAX", "LDUMIN"}

\* A dispatch that instantiates every helper with an unsigned T.
AtomicIsSigned_Never(op) == FALSE

\* ATOMIC_MEMORY_SIMPLE_INT_LIST: the operations whose helper is
\* instantiated with a signed T.
AtomicIsSigned(op) == op \in {"LDSMAX", "LDSMIN"}

\* data > value for two values of a T of nbytes bytes.
GreaterThanT(data, value, is_signed, nbytes) ==
  IF is_signed THEN SLT(value, data, 8 * nbytes) ELSE ULT(value, data)

\* WriteRegister<T>(code, value): a signed T narrower than a W register is
\* converted to int32_t, an unsigned one to uint32_t.
WriteRegisterTypeT(regs, nbytes, is_signed, code, value) ==
  WriteRegister(regs, IF nbytes = 8 THEN kXRegSize ELSE kWRegSize, code,
                IF is_signed THEN SignExtend(value, 8 * nbytes)
                ELSE And(value, Bits(8 * nbytes)),
                "Reg31IsZeroRegister")

\* Simulator::AtomicMemorySimpleHelper<T>, T of element_size bytes and the
\* signedness VisitAtomicMemory chooses for op.
AtomicMemorySimpleHelper(op, element_size, rs, rt, rn) ==
  LET address == ReadXRegister(xreg, rn, "Reg31IsStackPointer")
      is_signed == AtomicIsSigned(op)
      i == [op |-> "AtomicMemory", name |-> op, rs |-> rs, rt |-> rt,
            rn |-> rn, element_size |-> element_size, address |-> address]
      value == ReadRegisterT(xreg, element_size, rs)
      data == MemRead(mem, address, element_size)
      result ==
        CASE op = "LDADD" -> Add64(data, value, 0)
          [] op = "LDCLR" -> And(data, Not(value))
          [] op = "LDEOR" -> Xor(data, value)
          [] op = "LDSET" -> Or(data, value)
          [] op \in {"LDSMAX", "LDUMAX"} ->
               IF GreaterThanT(data, value, is_signed, element_size)
               THEN data ELSE value
          [] op \in {"LDSMIN", "LDUMIN"} ->
               IF GreaterThanT(data, value, is_signed, element_size)
               THEN value ELSE data
  IN /\ state = "run"
     /\ op \in AtomicMemorySimpleOps
     /\ AddrInMem(address, element_size)
     /\ IF ~IsValidAtomicAccess(rn, address, element_size) THEN Abort(i)
        ELSE /\ mem' = MemWrite(mem, address, element_size,
                                And(result, Bits(8 * element_size)))
             /\ xreg' = WriteRegisterTypeT(xreg, element_size, is_signed,
                                           rt, data)
             /\ Advance
             /\ Executed(i)
             /\ UNCHANGED <<nzcv, local_monitor, state>>

\* Simulator::AtomicMemorySwapHelper<T>, T unsigned of element_size bytes.
AtomicMemorySwapHelper(element_size, rs, rt, rn) ==
  LET address == ReadXRegister(xreg, rn, "Reg31IsStackPointer")
      i == [op |-> "AtomicMemory", name |-> "SWP", rs |-> rs, rt |-> rt,
            rn |-> rn, element_size |-> element_size, address |-> address]
      data == MemRead(mem, address, element_size)
  IN /\ state = "run"
     /\ AddrInMem(address, element_size)
     /\ IF ~IsValidAtomicAccess(rn, address, element_size) THEN Abort(i)
        ELSE /\ mem' = MemWrite(mem, address, element_size,
                                ReadRegisterT(xreg, element_size, rs))
             /\ xreg' = WriteRegisterTypeT(xreg, element_size, FALSE, rt, data)
             /\ Advance
             /\ Executed(i)
             /\ UNCHANGED <<nzcv, local_monitor, state>>

\* The number of times the instruction of an atomic program is executed.
MaxAtomicSteps == 1

\* The values of an n-bit T around its boundaries: 0, 1, the largest and
\* the smallest signed value, and all ones.
EdgeValues(n) == {Zero, NatToBits(1), Bits(n - 1), {n - 1}, Bits(n)}

\* One CAS, LDxxx or SWP instruction of 1, 2, 4 or 8 bytes: the value in
\* memory, the value of Rs (with the bits above the access size clear or
\* set), and the registers it names, the zero register and the stack
\* pointer among them.
AtomicPrograms ==
  {[op |-> op, element_size |-> n, old |-> old,
    rs_val |-> Or(v, IF high THEN AllOnes \ Bits(8 * n) ELSE Zero),
    rs |-> rs, rt |-> rt, rn |-> rn] :
     op \in AtomicMemorySimpleOps \cup {"SWP", "CAS"},
     n \in {1, 2, 4, 8},
     old \in UNION {EdgeValues(8 * m) : m \in {1, 2, 4, 8}},
     v \in UNION {EdgeValues(8 * m) : m \in {1, 2, 4, 8}},
     high \in BOOLEAN,
     rs \in {16, kZeroRegCode}, rt \in {3, kZeroRegCode},
     rn \in {2, kZeroRegCode}}

\* x16: Rs; x3: Rt; x2 and sp: the addresses 8 and 16.
AtomicXRegs(p) ==
  [c \in RegCodes |->
     CASE c = 16 -> p.rs_val
       [] c = 3 -> Data2
       [] c = 2 -> NatToBits(8)
       [] c = kZeroRegCode -> NatToBits(16)
       [] OTHER -> kBadBeef]

InitAtomic ==
  /\ program \in {p \in AtomicPrograms :
                    /\ p.old \subseteq Bits(8 * p.element_size)
                    /\ p.rs_val \cap Bits(8 * p.element_size)
                         \in EdgeValues(8 * p.element_size)}
  /\ xreg = AtomicXRegs(program)
  /\ nzcv = NoFlag
  /\ mem = MemWrite(PatternMem,
                    ReadXRegister(AtomicXRegs(program), program.rn,
                                  "Reg31IsStackPointer"),
                    program.element_size, program.old)
  /\ local_monitor = MonitorClear
  /\ pc = Zero
  /\ btype = "DefaultBType"
  /\ next_btype = "DefaultBType"
  /\ guard_pages = FALSE
  /\ tbi = [t \in PointerTypes |-> TRUE]
  /\ state = "run"
  /\ instr = [op |-> "reset"]
  /\ pre = [op |-> "none"]
  /\ hist = <<>>
  /\ ret = Zero
  /\ VectorsConstructed
  /\ FeaturesConstructed
  /\ OneInstance

AtomicStep == Len(hist) < MaxAtomicSteps

\* CASB, CASH, CAS
Atomic_CAS ==
  /\ AtomicStep
  /\ program.op = "CAS"
  /\ CompareAndSwapHelper(program.element_size, program.rs, program.rt,
                          program.rn)

\* LDADD, LDCLR, LDEOR, LDSET, LDSMAX, LDSMIN, LDUMAX, LDUMIN and their B
\* and H forms
Atomic_Simple ==
  /\ AtomicStep
  /\ program.op \in AtomicMemorySimpleOps
  /\ AtomicMemorySimpleHelper(program.op, program.element_size, program.rs,
                              program.rt, program.rn)

\* SWP, SWPB, SWPH
Atomic_SWP ==
  /\ AtomicStep
  /\ program.op = "SWP"
  /\ AtomicMemorySwapHelper(program.element_size, program.rs, program.rt,
                            program.rn)

NextAtomic == Atomic_CAS \/ Atomic_Simple \/ Atomic_SWP

SpecAtomic == InitAtomic /\ [][NextAtomic]_vars

\* The bytes of memory outside the nbytes at address are as before the
\* last instruction.
OtherBytesUnchanged(address, nbytes) ==
  \A a \in MemAddrs :
    (a < BitsToNat(address) \/ a >= BitsToNat(address) + nbytes) =>
      mem[a] = pre.mem[a]

\* C4: for every access size CompareAndSwap writes Rt to memory iff the
\* value read from memory equals Rs, both truncated to the access size,
\* leaves memory unchanged otherwise, and in both cases Rs (unless it is the
\* zero register) holds the value memory had before.
C4_CompareAndSwap ==
  (instr.op = "CompareAndSwap" /\ state = "run") =>
    LET t == Bits(8 * instr.element_size)
        old == MemRead(pre.mem, instr.address, instr.element_size)
        rs_val == ReadXRegister(pre.xreg, instr.rs, "Reg31IsZeroRegister") \cap t
        rt_val == ReadXRegister(pre.xreg, instr.rt, "Reg31IsZeroRegister") \cap t
    IN /\ old = rs_val =>
            MemRead(mem, instr.address, instr.element_size) = rt_val
       /\ old # rs_val => mem = pre.mem
       /\ OtherBytesUnchanged(instr.address, instr.element_size)
       /\ instr.rs # kZeroRegCode => xreg[instr.rs] = old

\* CASB with the low byte of Rs equal to the byte in memory and the bits of
\* Rs above it set: the byte is replaced by the low byte of Rt and Rs reads
\* the old byte.
C4_Witness ==
  /\ instr.op = "CompareAndSwap" /\ state = "run"
  /\ instr.element_size = 1
  /\ instr.rs = 16 /\ instr.rt = 3
  /\ pre.xreg[16] = Or({7}, AllOnes \ Bits(8))
  /\ MemRead(pre.mem, instr.address, 1) = {7}
  /\ MemRead(mem, instr.address, 1) = And(Data2, Bits(8))
  /\ xreg[16] = {7}

\* a < b as unsigned numbers: at the highest bit where they differ, b has
\* the one.
UnsignedLess(a, b) ==
  \E i \in b \ a : \A j \in Bits(kXRegSize) : j > i => (j \in a <=> j \in b)
\* a < b as two's-complement numbers of n bits.
SignedLess(a, b, n) == UnsignedLess(Xor(a, {n - 1}), Xor(b, {n - 1}))

\* What an atomic read-modify-write of n bits leaves in memory, from the
\* old memory value and the value of Rs, both of n bits.
AtomicExpected(name, old, v, n) ==
  CASE name = "LDADD" -> SumBits(old, v, 0, n)
    [] name = "LDCLR" -> old \ v
    [] name = "LDEOR" -> (old \cup v) \ (old \cap v)
    [] name = "LDSET" -> old \cup v
    [] name = "LDSMAX" -> IF SignedLess(old, v, n) THEN v ELSE old
    [] name = "LDUMAX" -> IF UnsignedLess(old, v) THEN v ELSE old
    [] name = "LDSMIN" -> IF SignedLess(v, old, n) THEN v ELSE old
    [] name = "LDUMIN" -> IF UnsignedLess(v, old) THEN v ELSE old
    [] name = "SWP" -> v

----------------------------------------------------------------------------
(* Pointer authentication *)

PACKeys == {"kPACKeyIA", "kPACKeyIB", "kPACKeyDA", "kPACKeyDB"}
\* PACKey::number
KeyNumber(key) == IF key \in {"kPACKeyIA", "kPACKeyDA"} THEN 0 ELSE 1

\* The lowest bit of the PAC field, above the virtual address.
kBottomPACBit == 48
\* The bit that selects the translation table; it is not part of the field.
kTTBRBit == 55

\* HasTBI(ptr, type): whether the top byte of pointers of this kind is
\* ignored, a configuration of the address space.
HasTBI(ptr, type) == tbi[type]

GetTopPACBit(ptr, type) == IF HasTBI(ptr, type) THEN 55 ELSE 63

\* CalculatePACMask(ptr, type, ttbr): the bits of the PAC field.
CalculatePACMask(ptr, type) ==
  (kBottomPACBit..GetTopPACBit(ptr, type)) \ {kTTBRBit}

\* What distinguishes the codes of the four keys.
KeySeed(key) ==
  CASE key = "kPACKeyIA" -> NatToBits(17)
    [] key = "kPACKeyIB" -> NatToBits(34)
    [] key = "kPACKeyDA" -> NatToBits(51)
    [] key = "kPACKeyDB" -> NatToBits(68)

\* ComputePAC(data, context, key): a code over the pointer and the modifier
\* under the key, in the bits of the widest PAC field.
ComputePAC(data, context, key) ==
  Shl(And(Xor(Xor(data, context), KeySeed(key)), Bits(16)), kBottomPACBit)

\* The pointer with its PAC field as the extension of bit 55.
ExtendedPtr(ptr, type) ==
  IF kTTBRBit \in ptr THEN ptr \cup CalculatePACMask(ptr, type)
  ELSE ptr \ CalculatePACMask(ptr, type)

\* AddPAC(ptr, context, key, type)
AddPAC(ptr, context, key, type) ==
  LET pac_mask == CalculatePACMask(ptr, type)
      pac == ComputePAC(ExtendedPtr(ptr, type), context, key)
  IN (ptr \ pac_mask) \cup (pac \cap pac_mask)

\* AuthPAC(ptr, context, key, type): the original pointer when the code in
\* ptr is the computed one; otherwise the original pointer with the error
\* code of the key in the two bits below the top of the field.
AuthPAC(ptr, context, key, type) ==
  LET pac_mask == CalculatePACMask(ptr, type)
      original_ptr == ExtendedPtr(ptr, type)
      pac == ComputePAC(original_ptr, context, key)
      error_lsb == GetTopPACBit(ptr, type) - 2
  IN IF pac \cap pac_mask = ptr \cap pac_mask THEN original_ptr
     ELSE (original_ptr \ {error_lsb, error_lsb + 1})
            \cup {error_lsb + KeyNumber(key)}

\* PcIsInGuardedPage()
PcIsInGuardedPage == guard_pages

\* PAUTH_MODES: the modifier, the key and the pointer kind of the PAC and
\* AUT instructions with this suffix.
PAuthSuffixes == {"IA", "IB", "IZA", "IZB", "DA", "DB", "DZA", "DZB"}
PAuthModifier(suffix, regs, src) ==
  IF suffix \in {"IZA", "IZB", "DZA", "DZB"} THEN Zero
  ELSE ReadXRegister(regs, src, "Reg31IsZeroRegister")
PAuthKey(suffix) ==
  CASE suffix \in {"IA", "IZA"} -> "kPACKeyIA"
    [] suffix \in {"IB", "IZB"} -> "kPACKeyIB"
    [] suffix \in {"DA", "DZA"} -> "kPACKeyDA"
    [] suffix \in {"DB", "DZB"} -> "kPACKeyDB"
PAuthPointerType(suffix) ==
  IF suffix \in {"IA", "IB", "IZA", "IZB"} THEN "kInstructionPointer"
  ELSE "kDataPointer"

\* An AUT instruction that signs.
PAuthApply_AutAdds(fn, ptr, modifier, key, type) == AddPAC(ptr, modifier, key, type)

\* DEFINE_PAUTH_FUNCS: PAC##SUFFIX calls AddPAC, AUT##SUFFIX calls AuthPAC.
PAuthApply(fn, ptr, modifier, key, type) ==
  IF fn = "PAC" THEN AddPAC(ptr, modifier, key, type)
  ELSE AuthPAC(ptr, modifier, key, type)

\* Simulator::VisitDataProcessing1Source, the PAC and AUT instructions:
\* fn is "PAC" or "AUT".
VisitDataProcessing1Source_PAuth(fn, suffix, dst, src) ==
  LET ptr == ReadXRegister(xreg, dst, "Reg31IsZeroRegister")
      modifier == PAuthModifier(suffix, xreg, src)
      key == PAuthKey(suffix)
      type == PAuthPointerType(suffix)
      i == [op |-> "PAuth", fn |-> fn, suffix |-> suffix, dst |-> dst,
            ptr |-> ptr, modifier |-> modifier, key |-> key, type |-> type]
  IN /\ state = "run"
     /\ xreg' = WriteXRegister(xreg, dst, PAuthApply(fn, ptr, modifier, key, type))
     /\ Advance
     /\ Executed(i)
     /\ UNCHANGED <<nzcv, mem, local_monitor, state>>

\* PAUTH_SYSTEM_MODES: the destination, the modifier and the key of the
\* PACI and AUTI system instructions with this suffix.
PAuthSystemSuffixes == {"A1716", "B1716", "AZ", "BZ", "ASP", "BSP"}
PAuthSystemDst(suffix) == IF suffix \in {"A1716", "B1716"} THEN 17 ELSE kLinkRegCode
PAuthSystemModifier(suffix, regs) ==
  CASE suffix \in {"A1716", "B1716"} -> ReadXRegister(regs, 16, "Reg31IsZeroRegister")
    [] suffix \in {"AZ", "BZ"} -> Zero
    [] suffix \in {"ASP", "BSP"} -> ReadXRegister(regs, 31, "Reg31IsStackPointer")
PAuthSystemKey(suffix) ==
  IF suffix \in {"A1716", "AZ", "ASP"} THEN "kPACKeyIA" ELSE "kPACKeyIB"

\* The cases of the switch on ReadBType() that PACIASP and PACIBSP go
\* through in a guarded page; each of them breaks.
PACIxSPAcceptedBTypes ==
  {"BranchFromGuardedNotToIP", "DefaultBType", "BranchFromUnguardedOrToIP",
   "BranchAndLink"}

\* Simulator::VisitSystem, the PACI and AUTI system instructions.  The
\* switch on the BType has no case that aborts.
VisitSystem_PAuth(fn, suffix) ==
  LET dst == PAuthSystemDst(suffix)
      ptr == ReadXRegister(xreg, dst, "Reg31IsZeroRegister")
      modifier == PAuthSystemModifier(suffix, xreg)
      key == PAuthSystemKey(suffix)
      i == [op |-> "PAuth", fn |-> fn, suffix |-> suffix, dst |-> dst,
            ptr |-> ptr, modifier |-> modifier, key |-> key,
            type |-> "kInstructionPointer"]
  IN /\ state = "run"
     /\ xreg' = WriteXRegister(xreg, dst,
                  PAuthApply(fn, ptr, modifier, key, "kInstructionPointer"))
     /\ Advance
     /\ Executed(i)
     /\ UNCHANGED <<nzcv, mem, local_monitor, state>>

\* The encodings of VisitUnconditionalBranchToRegister.
BranchForms ==
  {"BR", "BLR", "RET", "BRAAZ", "BRABZ", "BLRAAZ", "BLRABZ", "BRAA", "BRAB",
   "BLRAA", "BLRAB", "RETAA", "RETAB"}
BranchLinks(form) == form \in {"BLR", "BLRAAZ", "BLRABZ", "BLRAA", "BLRAB"}
BranchAuthenticates(form) == form \notin {"BR", "BLR", "RET"}
\* Bit 10 of the encoding selects the key.
BranchKey(form) ==
  IF form \in {"BRAAZ", "BLRAAZ", "BRAA", "BLRAA", "RETAA"}
  THEN "kPACKeyIA" ELSE "kPACKeyIB"

\* A BType that does not depend on the register of a BR.
GetBTypeFromInstruction_IgnoresRn(form, rn) ==
  CASE form \in {"BLR", "BLRAA", "BLRAB", "BLRAAZ", "BLRABZ"} -> "BranchAndLink"
    [] form \in {"BR", "BRAA", "BRAB", "BRAAZ", "BRABZ"} ->
         IF ~PcIsInGuardedPage THEN "BranchFromUnguardedOrToIP"
         ELSE "BranchFromGuardedNotToIP"
    [] OTHER -> "DefaultBType"

\* Simulator::GetBTypeFromInstruction
GetBTypeFromInstruction(form, rn) ==
  CASE form \in {"BLR", "BLRAA", "BLRAB", "BLRAAZ", "BLRABZ"} -> "BranchAndLink"
    [] form \in {"BR", "BRAA", "BRAB", "BRAAZ", "BRABZ"} ->
         IF rn = 16 \/ rn = 17 \/ ~PcIsInGuardedPage
         THEN "BranchFromUnguardedOrToIP"
         ELSE "BranchFromGuardedNotToIP"
    [] OTHER -> "DefaultBType"

\* The two bits at error_lsb of a pointer are not both clear.
ErrorBitsSet(addr, error_lsb) == addr \cap {error_lsb, error_lsb + 1} # {}

\* Simulator::VisitUnconditionalBranchToRegister.  The link register is
\* written before the pointer is authenticated.
VisitUnconditionalBranchToRegister(form, rn, rd) ==
  LET authenticate == BranchAuthenticates(form)
      link == BranchLinks(form)
      ptr == IF form \in {"RETAA", "RETAB"}
             THEN ReadXRegister(xreg, kLinkRegCode, "Reg31IsZeroRegister")
             ELSE ReadXRegister(xreg, rn, "Reg31IsZeroRegister")
      context ==
        CASE form \in {"BLRAA", "BLRAB", "BRAA", "BRAB"} ->
               ReadXRegister(xreg, rd, "Reg31IsZeroRegister")
          [] form \in {"RETAA", "RETAB"} ->
               ReadXRegister(xreg, 31, "Reg31IsStackPointer")
          [] OTHER -> Zero
      key == BranchKey(form)
      i == [op |-> "BranchToRegister", form |-> form, rn |-> rn, rd |-> rd,
            authenticate |-> authenticate, link |-> link, ptr |-> ptr,
            context |-> context, key |-> key]
      linked == IF link
                THEN WriteXRegister(xreg, kLinkRegCode,
                                    Add64(pc, NatToBits(4), 0))
                ELSE xreg
      addr == IF authenticate
              THEN AuthPAC(ptr, context, key, "kInstructionPointer")
              ELSE ptr
      error_lsb == GetTopPACBit(addr, "kInstructionPointer") - 2
  IN /\ state = "run"
     /\ form \in BranchForms
     /\ xreg' = linked
     /\ IF authenticate /\ ErrorBitsSet(addr, error_lsb)
        THEN /\ state' = "abort"
             /\ UNCHANGED <<pc, btype, next_btype>>
        ELSE /\ pc' = addr
             /\ btype' = GetBTypeFromInstruction(form, rn)
             /\ next_btype' = "DefaultBType"
             /\ state' = state
     /\ Executed(i)
     /\ UNCHANGED <<nzcv, mem, local_monitor>>

\* What a read of host memory outside the simulated bytes may return.
WildValues == {Zero, AllOnes}

\* Simulator::VisitLoadStorePAC: LDRAA (key DA) and LDRAB (key DB), with an
\* offset and optionally the pre-index write-back.
VisitLoadStorePAC(key, dst, addr_reg, offset, pre_index) ==
  LET ptr == ReadXRegister(xreg, addr_reg, "Reg31IsStackPointer")
      i == [op |-> "LoadStorePAC", key |-> key, dst |-> dst,
            addr_reg |-> addr_reg, offset |-> offset,
            pre_index |-> pre_index, ptr |-> ptr, context |-> Zero]
      authed == AuthPAC(ptr, Zero, key, "kDataPointer")
      error_lsb == GetTopPACBit(authed, "kInstructionPointer") - 2
      address == Add64(authed, NatToBits(offset), 0)
      written_back == IF pre_index
                      THEN WriteRegister(xreg, kXRegSize, addr_reg, address,
                                         "Reg31IsStackPointer")
                      ELSE xreg
  IN /\ state = "run"
     /\ key \in {"kPACKeyDA", "kPACKeyDB"}
     /\ pre_index => offset # 0
     /\ IF ErrorBitsSet(authed, error_lsb) THEN Abort(i)
        ELSE IF addr_reg = 31 /\ authed \cap Bits(4) # {} THEN Abort(i)
        ELSE /\ IF AddrInMem(address, 8)
                THEN /\ xreg' = WriteXRegister(written_back, dst,
                                               MemRead(mem, address, 8))
                     /\ state' = state
                ELSE \/ /\ xreg' = written_back
                        /\ state' = "host_fault"
                     \/ /\ \E v \in WildValues :
                             xreg' = WriteXRegister(written_back, dst, v)
                        /\ state' = state
             /\ Advance
             /\ Executed(i)
             /\ UNCHANGED <<nzcv, mem, local_monitor>>

----------------------------------------------------------------------------
(* Programs that sign, authenticate and use a pointer *)

\* The number of instructions of a pointer-authentication program.
MaxPAuthSteps == 2

\* The instruction that uses the pointer: an indirect branch or an
\* authenticating load.
PAuthConsumers ==
  {[kind |-> "branch", form |-> f] : f \in BranchForms} \cup
  {[kind |-> "load", key |-> k, offset |-> o[1], pre_index |-> o[2]] :
     k \in {"kPACKeyDA", "kPACKeyDB"},
     o \in {<<0, FALSE>>, <<8, FALSE>>, <<8, TRUE>>}}

\* The register that holds the pointer and the one that holds the modifier
\* for the PAC and AUT instructions with this suffix: x0 and x1 for the
\* one-source forms, x17 and x16, or the link register.
ProgramDst(suffix) ==
  IF suffix \in PAuthSuffixes THEN 0 ELSE PAuthSystemDst(suffix)
ProgramSrc(suffix) ==
  CASE suffix \in PAuthSuffixes -> 1
    [] suffix \in {"A1716", "B1716"} -> 16
    [] OTHER -> kZeroRegCode

\* x0, x17 and lr point to address 8; x1 and x16 are modifiers; sp is 16.
PAuthXRegs ==
  [c \in RegCodes |->
     CASE c \in {0, 17, kLinkRegCode} -> NatToBits(8)
       [] c = 1 -> NatToBits(5)
       [] c = 16 -> NatToBits(6)
       [] c = kZeroRegCode -> NatToBits(16)
       [] OTHER -> kBadBeef]

InitPAuth ==
  /\ program \in [suffix : PAuthSuffixes \cup PAuthSystemSuffixes,
                  consumer : PAuthConsumers]
  /\ xreg = PAuthXRegs
  /\ nzcv = NoFlag
  /\ mem = PatternMem
  /\ local_monitor = MonitorClear
  /\ pc = Zero
  /\ btype = "DefaultBType"
  /\ next_btype = "DefaultBType"
  /\ guard_pages \in BOOLEAN
  /\ tbi \in [PointerTypes -> BOOLEAN]
  /\ state = "run"
  /\ instr = [op |-> "reset"]
  /\ pre = [op |-> "none"]
  /\ hist = <<>>
  /\ ret = Zero
  /\ VectorsConstructed
  /\ FeaturesConstructed
  /\ OneInstance

PAuthStep == Len(hist) < MaxPAuthSteps

\* PACxx or AUTxx of the program's suffix; fn is "PAC" or "AUT".
PAuthInstruction(fn) ==
  IF program.suffix \in PAuthSuffixes
  THEN VisitDataProcessing1Source_PAuth(fn, program.suffix,
                                        ProgramDst(program.suffix),
                                        ProgramSrc(program.suffix))
  ELSE VisitSystem_PAuth(fn, program.suffix)

PAuth_PAC == PAuthStep /\ PAuthInstruction("PAC")

PAuth_AUT == PAuthStep /\ PAuthInstruction("AUT")

\* The program's branch through its pointer register.
PAuth_Branch ==
  /\ PAuthStep
  /\ program.consumer.kind = "branch"
  /\ VisitUnconditionalBranchToRegister(program.consumer.form,
                                        ProgramDst(program.suffix),
                                        ProgramSrc(program.suffix))

\* The program's LDRAA or LDRAB through its pointer register, into x3.
PAuth_Load ==
  /\ PAuthStep
  /\ program.consumer.kind = "load"
  /\ VisitLoadStorePAC(program.consumer.key, 3, ProgramDst(program.suffix),
                       program.consumer.offset, program.consumer.pre_index)

NextPAuth == PAuth_PAC \/ PAuth_AUT \/ PAuth_Branch \/ PAuth_Load

SpecPAuth == InitPAuth /\ [][NextPAuth]_vars

\* The last instruction authenticates its pointer.
Authenticates(i) ==
  \/ i.op = "BranchToRegister" /\ i.authenticate
  \/ i.op = "LoadStorePAC"
\* The kind of the pointer the instruction authenticates.
AuthenticatedKind(i) ==
  IF i.op = "LoadStorePAC" THEN "kDataPointer" ELSE "kInstructionPointer"
\* AuthPAC reports a mismatch for the pointer of the instruction: the
\* pointer it returns has the marker bits of that pointer kind set.
AuthPACReportsMismatch(i) ==
  LET authed == AuthPAC(i.ptr, i.context, i.key, AuthenticatedKind(i))
  IN ErrorBitsSet(authed, GetTopPACBit(authed, AuthenticatedKind(i)) - 2)

\* C6 as stated: every authenticating branch and load aborts whenever
\* AuthPAC reports a mismatch in the marker bits of the pointer's kind, with
\* the PC unchanged, memory unread and no register loaded.
C6_AuthFailureAborts ==
  (Authenticates(instr) /\ AuthPACReportsMismatch(instr)) =>
    /\ state = "abort"
    /\ pc = pre.pc
    /\ instr.op = "LoadStorePAC" => xreg = pre.xreg

\* An LDRAA or LDRAB whose pointer fails authentication and which goes on
\* to the memory access.
C6_Witness ==
  /\ instr.op = "LoadStorePAC"
  /\ AuthPACReportsMismatch(instr)
  /\ state # "abort"
  /\ tbi["kDataPointer"] # tbi["kInstructionPointer"]

\* The PAC field of the pointer and bit 55 are clear.
PACFieldClear(ptr, type) ==
  ptr \cap (CalculatePACMask(ptr, type) \cup {kTTBRBit}) = {}

\* C7: AuthPAC(AddPAC(ptr, mod, key, kind), mod, key, kind) = ptr for every
\* pointer whose PAC field is clear (the functions depend on the state only
\* through the TBI configuration, which the initial states range over), and
\* a PACxx followed by the AUTxx of the same suffix with the same modifier
\* restores the destination register.
C7_RoundTrip ==
  /\ hist = <<>> =>
       \A key \in PACKeys, type \in PointerTypes :
       \A ptr \in {NatToBits(8), {3, 60}, {3, 48}} :
       \A modifier \in {Zero, NatToBits(5), AllOnes} :
         PACFieldClear(ptr, type) =>
           AuthPAC(AddPAC(ptr, modifier, key, type), modifier, key, type) = ptr
  /\ (/\ Len(hist) >= 2
      /\ instr.op = "PAuth" /\ instr.fn = "AUT"
      /\ hist[Len(hist) - 1].op = "PAuth" /\ hist[Len(hist) - 1].fn = "PAC"
      /\ hist[Len(hist) - 1].suffix = instr.suffix
      /\ hist[Len(hist) - 1].dst = instr.dst
      /\ hist[Len(hist) - 1].modifier = instr.modifier
      /\ PACFieldClear(hist[Len(hist) - 1].ptr, instr.type))
     => xreg[instr.dst] = hist[Len(hist) - 1].ptr

\* PACDB x0, x1 then AUTDB x0, x1 without TBI for data pointers: x0 was
\* signed in between and is the pointer 8 again.
C7_Witness ==
  /\ Len(hist) = 2
  /\ hist[1].op = "PAuth" /\ hist[1].fn = "PAC" /\ hist[1].suffix = "DB"
  /\ instr.op = "PAuth" /\ instr.fn = "AUT" /\ instr.suffix = "DB"
  /\ ~tbi["kDataPointer"]
  /\ pre.xreg[0] # NatToBits(8)
  /\ pre.xreg[0] \cap Bits(kBottomPACBit) = NatToBits(8)
  /\ xreg[0] = NatToBits(8)

\* The register whose value a branch takes as its target.
TargetRegister(i) ==
  IF i.form \in {"RETAA", "RETAB"} THEN kLinkRegCode ELSE i.rn

\* The BType the claim gives a branch that has been taken.
BTypeByLinkAndTarget(i) ==
  IF i.link THEN "BranchAndLink"
  ELSE IF TargetRegister(i) \in {16, 17} \/ ~guard_pages
       THEN "BranchFromUnguardedOrToIP"
       ELSE "BranchFromGuardedNotToIP"

\* C8 as stated: after any indirect branch, RET and its authenticating forms
\* included, the next BType follows from the link and the target register.
C8_AsStated ==
  (instr.op = "BranchToRegister" /\ state = "run") =>
    btype = BTypeByLinkAndTarget(instr)

\* C8, amended: after BR, BLR and their authenticating forms the next BType
\* follows from the link and the target register; after RET, RETAA and
\* RETAB it is DefaultBType.
C8_NextBType ==
  (instr.op = "BranchToRegister" /\ state = "run") =>
    /\ next_btype = "DefaultBType"
    /\ btype = IF instr.form \in {"RET", "RETAA", "RETAB"}
               THEN "DefaultBType"
               ELSE BTypeByLinkAndTarget(instr)

\* BRAA x0, x1 in a guarded page after PACIA x0, x1: the branch is taken to
\* address 8 and the BType is BranchFromGuardedNotToIP.
C8_Witness ==
  /\ instr.op = "BranchToRegister" /\ state = "run"
  /\ instr.form = "BRAA" /\ instr.rn = 0
  /\ guard_pages
  /\ pc = NatToBits(8)
  /\ btype = "BranchFromGuardedNotToIP"

----------------------------------------------------------------------------
(* Branch target identification *)

BTIHints == {"BTI", "BTI_c", "BTI_j", "BTI_jc"}

\* A BTI c that rejects the BType of BLR instead.
BTIAccepts_CRejectsLink(hint, bt) ==
  CASE hint = "BTI" -> bt = "DefaultBType"
    [] hint = "BTI_c" -> bt # "BranchAndLink"
    [] hint = "BTI_j" -> bt # "BranchAndLink"
    [] hint = "BTI_jc" -> TRUE

\* The BTypes with which each BTI hint executes in a guarded page without
\* the abort of VisitSystem.
BTIAccepts(hint, bt) ==
  CASE hint = "BTI" -> bt = "DefaultBType"
    [] hint = "BTI_c" -> bt # "BranchFromGuardedNotToIP"
    [] hint = "BTI_j" -> bt # "BranchAndLink"
    [] hint = "BTI_jc" -> TRUE

\* Simulator::VisitSystem, the hints BTI, BTI c, BTI j and BTI jc.
VisitSystem_BTI(hint) ==
  LET i == [op |-> "BTI", hint |-> hint]
  IN /\ state = "run"
     /\ hint \in BTIHints
     /\ IF PcIsInGuardedPage /\ ~BTIAccepts(hint, btype) THEN Abort(i)
        ELSE /\ Advance
             /\ Executed(i)
             /\ UNCHANGED <<xreg, nzcv, mem, local_monitor, state>>

\* The number of instructions of a branch-target program.
MaxBTISteps == 3

\* x1, x16 and lr hold the branch target, address 8.
BTIXRegs ==
  [c \in RegCodes |->
     CASE c \in {1, 16, kLinkRegCode} -> NatToBits(8)
       [] c = kZeroRegCode -> NatToBits(16)
       [] OTHER -> kBadBeef]

InitBTI ==
  /\ program = [name |-> "branch targets"]
  /\ xreg = BTIXRegs
  /\ nzcv = NoFlag
  /\ mem = PatternMem
  /\ local_monitor = MonitorClear
  /\ pc = Zero
  /\ btype = "DefaultBType"
  /\ next_btype = "DefaultBType"
  /\ guard_pages \in BOOLEAN
  /\ tbi = [t \in PointerTypes |-> TRUE]
  /\ state = "run"
  /\ instr = [op |-> "reset"]
  /\ pre = [op |-> "none"]
  /\ hist = <<>>
  /\ ret = Zero
  /\ VectorsConstructed
  /\ FeaturesConstructed
  /\ OneInstance

BTIStep == Len(hist) < MaxBTISteps

\* BR x1, BR x16, BLR x1, BLR x16, RET
BTI_Branch ==
  /\ BTIStep
  /\ \E form \in {"BR", "BLR", "RET"}, rn \in {1, 16, kLinkRegCode} :
       /\ form = "RET" <=> rn = kLinkRegCode
       /\ VisitUnconditionalBranchToRegister(form, rn, kZeroRegCode)

BTI_Hint == BTIStep /\ \E hint \in BTIHints : VisitSystem_BTI(hint)

\* PACIASP, PACIBSP
BTI_PACIxSP == BTIStep /\ \E suffix \in {"ASP", "BSP"} : VisitSystem_PAuth("PAC", suffix)

BTI_NOP == BTIStep /\ VisitSystem_NOP

NextBTI == BTI_Branch \/ BTI_Hint \/ BTI_PACIxSP \/ BTI_NOP

SpecBTI == InitBTI /\ [][NextBTI]_vars

\* C9: in a guarded page BTI aborts unless the BType is Default, BTI c
\* aborts iff it is BranchFromGuardedNotToIP, BTI j iff it is BranchAndLink,
\* BTI jc never; PACIASP and PACIBSP accept every BType and never abort;
\* outside a guarded page none of them aborts.
C9_BTypeChecks ==
  /\ instr.op = "BTI" =>
       (state = "abort" <=>
          /\ guard_pages
          /\ CASE instr.hint = "BTI" -> pre.btype # "DefaultBType"
               [] instr.hint = "BTI_c" -> pre.btype = "BranchFromGuardedNotToIP"
               [] instr.hint = "BTI_j" -> pre.btype = "BranchAndLink"
               [] instr.hint = "BTI_jc" -> FALSE)
  /\ (instr.op = "PAuth" /\ instr.fn = "PAC" /\ instr.suffix \in {"ASP", "BSP"}) =>
       /\ pre.btype \in PACIxSPAcceptedBTypes
       /\ state = "run"

\* BTI c as the target of BR x1 from a guarded page: the BType is
\* BranchFromGuardedNotToIP and the simulation aborts.
C9_Witness ==
  /\ instr.op = "BTI" /\ instr.hint = "BTI_c"
  /\ guard_pages
  /\ Len(hist) = 2 /\ hist[1].op = "BranchToRegister" /\ hist[1].form = "BR"
  /\ pre.btype = "BranchFromGuardedNotToIP"
  /\ state = "abort"

----------------------------------------------------------------------------
(* Writes of W registers *)

\* The shift and extend kinds of the operand of a data-processing
\* instruction.
Shifts == {"LSL", "LSR", "ASR", "ROR"}
Extends == {"UXTB", "UXTH", "UXTW", "UXTX", "SXTB", "SXTH", "SXTW", "SXTX"}

\* RotateRight(value, rotate, width): the low width bits of value rotated
\* right by rotate.
RotateRight(value, rotate, width) ==
  LET width_mask == Bits(width)
      v == And(value, width_mask)
  IN IF rotate > 0
     THEN And(Or(Shl(v, width - rotate), Shr(v, rotate)), width_mask)
     ELSE v

\* ShiftOperand without its early return for amount 0.
ShiftOperand_NoEarlyReturn(reg_size, value, shift_type, amount) ==
  LET mask == Bits(reg_size)
      is_negative == (reg_size - 1) \in value
      uvalue ==
        CASE shift_type = "LSL" -> Shl(value, amount)
          [] shift_type = "LSR" -> Shr(value, amount)
          [] shift_type = "ASR" ->
               IF is_negative
               THEN Or(Shr(value, amount), Shl(AllOnes, reg_size - amount))
               ELSE Shr(value, amount)
          [] shift_type = "ROR" -> RotateRight(value, amount, reg_size)
  IN And(uvalue, mask)

\* Simulator::ShiftOperand(reg_size, value, shift_type, amount).
ShiftOperand(reg_size, value, shift_type, amount) ==
  IF amount = 0 THEN value
  ELSE LET mask == Bits(reg_size)
           is_negative == (reg_size - 1) \in value
           uvalue ==
             CASE shift_type = "LSL" -> Shl(value, amount)
               [] shift_type = "LSR" -> Shr(value, amount)
               [] shift_type = "ASR" ->
                    IF is_negative
                    THEN Or(Shr(value, amount), Shl(AllOnes, reg_size - amount))
                    ELSE Shr(value, amount)
               [] shift_type = "ROR" -> RotateRight(value, amount, reg_size)
       IN And(uvalue, mask)

kByteMask == Bits(8)
kHalfWordMask == Bits(16)
kWordMask == Bits(32)

\* Simulator::ExtendValue(reg_size, value, extend_type, left_shift).
ExtendValue(reg_size, value, extend_type, left_shift) ==
  LET masked ==
        CASE extend_type \in {"UXTB", "SXTB"} -> And(value, kByteMask)
          [] extend_type \in {"UXTH", "SXTH"} -> And(value, kHalfWordMask)
          [] extend_type \in {"UXTW", "SXTW"} -> And(value, kWordMask)
          [] extend_type \in {"UXTX", "SXTX"} -> value
      extended ==
        CASE extend_type = "SXTB" /\ 7 \in masked -> Or(masked, Shl(AllOnes, 8))
          [] extend_type = "SXTH" /\ 15 \in masked -> Or(masked, Shl(AllOnes, 16))
          [] extend_type = "SXTW" /\ 31 \in masked -> Or(masked, Shl(AllOnes, 32))
          [] OTHER -> masked
  IN ShiftOperand(reg_size, extended, "LSL", left_shift)

\* ReadWRegister(code) converted to int64_t: the int32_t it returns is
\* sign-extended.
ReadWRegisterInt64(regs, code) == SignExtend(ReadWRegister(regs, code), kWRegSize)

\* Simulator::VisitMoveWideImmediate: MOVN, MOVK and MOVZ of imm16 shifted
\* left by 16 * shift_index bits.
VisitMoveWideImmediate(mov_op, is_64_bits, rd, imm16, shift_index) ==
  LET shift == 16 * shift_index
      shifted_imm16 == Shl(NatToBits(imm16), shift)
      prev_xn_val == IF is_64_bits
                     THEN ReadXRegister(xreg, rd, "Reg31IsZeroRegister")
                     ELSE ReadWRegisterInt64(xreg, rd)
      new_xn_val ==
        CASE mov_op = "MOVN" ->
               IF is_64_bits THEN Not(shifted_imm16)
               ELSE And(Not(shifted_imm16), Bits(kWRegSize))
          [] mov_op = "MOVK" ->
               Or(And(prev_xn_val, Not(Shl(Bits(16), shift))), shifted_imm16)
          [] mov_op = "MOVZ" -> shifted_imm16
      i == [op |-> "MoveWideImmediate", mov_op |-> mov_op,
            is_64_bits |-> is_64_bits, rd |-> rd, imm16 |-> imm16,
            shift |-> shift]
  IN /\ state = "run"
     /\ mov_op \in {"MOVN", "MOVK", "MOVZ"}
     /\ is_64_bits \/ shift_index < 2
     /\ xreg' = WriteXRegister(xreg, rd, new_xn_val)
     /\ Advance
     /\ Executed(i)
     /\ UNCHANGED <<nzcv, mem, local_monitor, state>>

\* ReadRegister(reg_size, code, r31mode): the register, zero-extended from
\* reg_size bits.
ReadRegister(regs, reg_size, code, r31mode) ==
  And(ReadXRegister(regs, code, r31mode), Bits(reg_size))

AddSubForms == {"AddSubImmediate", "AddSubShifted", "AddSubExtended"}

\* instr->GetRnMode() and instr->GetRdMode(): register 31 is the stack
\* pointer as Rn of the immediate and extended forms, and as Rd of those
\* forms unless they set the flags.
GetRnMode(form) ==
  IF form \in {"AddSubImmediate", "AddSubExtended"}
  THEN "Reg31IsStackPointer" ELSE "Reg31IsZeroRegister"
GetRdMode(form, set_flags) ==
  IF form \in {"AddSubImmediate", "AddSubExtended"} /\ ~set_flags
  THEN "Reg31IsStackPointer" ELSE "Reg31IsZeroRegister"

\* AddSubHelper with SUB computed as left + ~right, without the carry in.
AddSubHelper_SubNoCarry(form, operation, is_64_bits, set_flags, rd, rn, op2) ==
  LET reg_size == IF is_64_bits THEN kXRegSize ELSE kWRegSize
      left == ReadRegister(xreg, reg_size, rn, GetRnMode(form))
      sum == IF operation = "ADD"
             THEN AddWithCarry(reg_size, left, op2, 0)
             ELSE AddWithCarry(reg_size, left, Not(op2), 0)
      i == [op |-> form, operation |-> operation, is_64_bits |-> is_64_bits,
            set_flags |-> set_flags, rd |-> rd, rn |-> rn, op2 |-> op2]
  IN /\ state = "run"
     /\ operation \in {"ADD", "SUB"}
     /\ xreg' = WriteRegister(xreg, reg_size, rd, sum.result,
                              GetRdMode(form, set_flags))
     /\ nzcv' = IF set_flags THEN sum.flags ELSE nzcv
     /\ Advance
     /\ Executed(i)
     /\ UNCHANGED <<mem, local_monitor, state>>

\* Simulator::AddSubHelper(instr, op2): ADD and ADDS (operation "ADD"
\* without and with set_flags), SUB and SUBS of Rn and op2 into Rd.
AddSubHelper(form, operation, is_64_bits, set_flags, rd, rn, op2) ==
  LET reg_size == IF is_64_bits THEN kXRegSize ELSE kWRegSize
      left == ReadRegister(xreg, reg_size, rn, GetRnMode(form))
      sum == IF operation = "ADD"
             THEN AddWithCarry(reg_size, left, op2, 0)
             ELSE AddWithCarry(reg_size, left, Not(op2), 1)
      i == [op |-> form, operation |-> operation, is_64_bits |-> is_64_bits,
            set_flags |-> set_flags, rd |-> rd, rn |-> rn, op2 |-> op2]
  IN /\ state = "run"
     /\ operation \in {"ADD", "SUB"}
     /\ xreg' = WriteRegister(xreg, reg_size, rd, sum.result,
                              GetRdMode(form, set_flags))
     /\ nzcv' = IF set_flags THEN sum.flags ELSE nzcv
     /\ Advance
     /\ Executed(i)
     /\ UNCHANGED <<mem, local_monitor, state>>

\* Simulator::VisitAddSubImmediate: op2 is the 12-bit immediate, optionally
\* shifted left by 12.
VisitAddSubImmediate(operation, is_64_bits, set_flags, rd, rn, imm12, shift12) ==
  LET op2 == Shl(NatToBits(imm12), IF shift12 THEN 12 ELSE 0)
  IN AddSubHelper("AddSubImmediate", operation, is_64_bits, set_flags, rd, rn,
                  op2)

\* Simulator::VisitAddSubShifted: op2 is Rm shifted by an immediate amount.
VisitAddSubShifted(operation, is_64_bits, set_flags, rd, rn, rm, shift_type, amount) ==
  LET reg_size == IF is_64_bits THEN kXRegSize ELSE kWRegSize
      op2 == ShiftOperand(reg_size,
                          ReadRegister(xreg, reg_size, rm, "Reg31IsZeroRegister"),
                          shift_type, amount)
  IN AddSubHelper("AddSubShifted", operation, is_64_bits, set_flags, rd, rn,
                  op2)

\* Simulator::VisitAddSubExtended: op2 is Rm extended and shifted left.
VisitAddSubExtended(operation, is_64_bits, set_flags, rd, rn, rm, extend_type, left_shift) ==
  LET reg_size == IF is_64_bits THEN kXRegSize ELSE kWRegSize
      op2 == ExtendValue(reg_size,
                         ReadRegister(xreg, reg_size, rm, "Reg31IsZeroRegister"),
                         extend_type, left_shift)
  IN AddSubHelper("AddSubExtended", operation, is_64_bits, set_flags, rd, rn,
                  op2)

\* The number of times the instruction of a register-write program is
\* executed.
MaxWriteSteps == 1

\* One MOVZ, MOVN, MOVK, ADD, ADDS, SUB or SUBS of either size, with x0 as
\* the destination and x1 as the source, and the values they hold before.
WritePrograms ==
  {[kind |-> "MoveWide", mov_op |-> m, is_64_bits |-> x, imm16 |-> imm,
    shift_index |-> sh, rd_val |-> d, rn_val |-> Zero] :
     m \in {"MOVN", "MOVK", "MOVZ"}, x \in BOOLEAN,
     imm \in {0, 1, 32768, 65535}, sh \in 0..3,
     d \in {Zero, kBadBeef, {31}, Bits(31), AllOnes}} \cup
  {[kind |-> "AddSub", operation |-> o, is_64_bits |-> x, set_flags |-> f,
    imm12 |-> imm, shift12 |-> sh, rd_val |-> d, rn_val |-> n] :
     o \in {"ADD", "SUB"}, x \in BOOLEAN, f \in BOOLEAN,
     imm \in {0, 1, 4095}, sh \in BOOLEAN,
     d \in {Zero, AllOnes}, n \in {Zero, Bits(32), {31}, AllOnes}}

InitWrite ==
  /\ program \in {p \in WritePrograms :
                    p.kind = "MoveWide" => (p.is_64_bits \/ p.shift_index < 2)}
  /\ xreg = [ResetXRegs EXCEPT ![0] = program.rd_val, ![1] = program.rn_val]
  /\ nzcv = NoFlag
  /\ mem = PatternMem
  /\ local_monitor = MonitorClear
  /\ pc = Zero
  /\ btype = "DefaultBType"
  /\ next_btype = "DefaultBType"
  /\ guard_pages = FALSE
  /\ tbi = [t \in PointerTypes |-> TRUE]
  /\ state = "run"
  /\ instr = [op |-> "reset"]
  /\ pre = [op |-> "none"]
  /\ hist = <<>>
  /\ ret = Zero
  /\ VectorsConstructed
  /\ FeaturesConstructed
  /\ OneInstance

WriteStep == Len(hist) < MaxWriteSteps

Write_MoveWide ==
  /\ WriteStep
  /\ program.kind = "MoveWide"
  /\ VisitMoveWideImmediate(program.mov_op, program.is_64_bits, 0,
                            program.imm16, program.shift_index)

Write_AddSub ==
  /\ WriteStep
  /\ program.kind = "AddSub"
  /\ VisitAddSubImmediate(program.operation, program.is_64_bits,
                          program.set_flags, 0, 1, program.imm12,
                          program.shift12)

NextWrite == Write_MoveWide \/ Write_AddSub

SpecWrite == InitWrite /\ [][NextWrite]_vars

\* C10 as stated: after a W-form instruction has written its destination
\* register, bits 63:32 of the register are zero.
C10_WWritesZeroExtend ==
  (instr.op \in {"MoveWideImmediate", "AddSubImmediate"} /\ ~instr.is_64_bits) =>
    xreg[instr.rd] \cap (kWRegSize..(kXRegSize - 1)) = {}

\* MOVK w0, #1 with bit 31 of w0 set before: bits 63:32 of x0 are all ones
\* afterwards.
C10_Witness ==
  /\ instr.op = "MoveWideImmediate" /\ instr.mov_op = "MOVK"
  /\ ~instr.is_64_bits /\ instr.imm16 = 1 /\ instr.shift = 0
  /\ pre.xreg[0] = {31}
  /\ xreg[0] = {0} \cup (31..63)

----------------------------------------------------------------------------
(* ShiftOperand and ExtendValue as functions of their arguments *)

\* The largest shift amount and left shift the calls are made with.
MaxShift == 2

\* Values on each side of the byte, halfword, word and doubleword sign bits.
ShiftValues ==
  {Zero, {0}, {7}, Bits(7), Bits(8), {8}, {15}, Bits(15), {31}, Bits(31), {32},
   {63},
   kBadBeef, Or(kBadBeef, {40}), AllOnes}

\* The arguments of a call of ShiftOperand or ExtendValue about to be made.
InitShift ==
  /\ Constructed
  /\ nzcv = NoFlag
  /\ \E reg_size \in {kWRegSize, kXRegSize}, value \in ShiftValues,
        amount \in 0..MaxShift :
       \/ \E shift_type \in Shifts :
            program = [op |-> "ShiftOperand", reg_size |-> reg_size,
                       value |-> value, kind |-> shift_type, amount |-> amount]
       \/ \E extend_type \in Extends :
            program = [op |-> "ExtendValue", reg_size |-> reg_size,
                       value |-> value, kind |-> extend_type, amount |-> amount]
  /\ instr = [op |-> "reset"]
  /\ pre = [op |-> "none"]
  /\ hist = <<>>
  /\ ret = Zero

\* The call returns: the helpers are const and touch no simulator state.
Returned(r) ==
  /\ state = "run"
  /\ hist = <<>>
  /\ ret' = r
  /\ instr' = program
  /\ pre' = Snapshot
  /\ hist' = <<program>>
  /\ UNCHANGED <<xreg, nzcv, mem, local_monitor, pc, btype, next_btype,
                 guard_pages, tbi, state, program, vector_length, vregisters,
                 pregisters, fpcr, cpu_features, saved_cpu_features_,
                 instances>>

CallShiftOperand ==
  /\ program.op = "ShiftOperand"
  /\ Returned(ShiftOperand(program.reg_size, program.value, program.kind,
                           program.amount))

CallExtendValue ==
  /\ program.op = "ExtendValue"
  /\ Returned(ExtendValue(program.reg_size, program.value, program.kind,
                          program.amount))

NextShift == CallShiftOperand \/ CallExtendValue
SpecShift == InitShift /\ [][NextShift]_vars

\* The number of low bits of its input an extend kind keeps.
ExtendWidth(extend_type) ==
  CASE extend_type \in {"UXTB", "SXTB"} -> 8
    [] extend_type \in {"UXTH", "SXTH"} -> 16
    [] extend_type \in {"UXTW", "SXTW"} -> 32
    [] extend_type \in {"UXTX", "SXTX"} -> 64

\* The low ExtendWidth bits of value, zero-extended (UXT*) or sign-extended
\* (SXT*) to 64 bits, bit by bit.
Extension(value, extend_type) ==
  LET w == ExtendWidth(extend_type)
      signed == extend_type \in {"SXTB", "SXTH", "SXTW", "SXTX"}
  IN {i \in Bits(kXRegSize) :
        IF i < w THEN i \in value ELSE signed /\ (w - 1) \in value}

\* C13 as stated: with amount 0 ShiftOperand returns its input, and with
\* left shift 0 ExtendValue returns its input for each of UXTB, UXTH, UXTW,
\* SXTB, SXTH and SXTW.
C13_AsStated ==
  /\ (instr.op = "ShiftOperand" /\ instr.amount = 0) => ret = instr.value
  /\ (instr.op = "ExtendValue" /\ instr.amount = 0
      /\ instr.kind \in {"UXTB", "UXTH", "UXTW", "SXTB", "SXTH", "SXTW"}) =>
       ret = instr.value

\* C13: with amount 0 ShiftOperand returns its input unchanged for LSL,
\* LSR, ASR and ROR, at both register sizes; with left shift 0 ExtendValue
\* returns the low 8, 16 or 32 bits of its input zero-extended (UXTB, UXTH,
\* UXTW) or sign-extended (SXTB, SXTH, SXTW) to 64 bits, not shifted and
\* not truncated to the register size, which is the input itself exactly
\* when the input already is that extension.
C13_ZeroAmount ==
  /\ (instr.op = "ShiftOperand" /\ instr.amount = 0) => ret = instr.value
  /\ (instr.op = "ExtendValue" /\ instr.amount = 0) =>
       /\ ret = Extension(instr.value, instr.kind)
       /\ ret = instr.value <=> instr.value = Extension(instr.value, instr.kind)

\* ExtendValue(32, 0xff, SXTB, 0) returns 0xffffffffffffffff: the input is
\* changed, and the result is wider than the register size.
C13_Witness ==
  /\ instr.op = "ExtendValue" /\ instr.kind = "SXTB" /\ instr.amount = 0
  /\ instr.reg_size = kWRegSize
  /\ instr.value = Bits(8)
  /\ ret = AllOnes

----------------------------------------------------------------------------
(* ADD, ADDS, SUB and SUBS *)

\* The number of times the instruction of an add/subtract program is
\* executed.
MaxAddSubSteps == 1

\* The flags a program has left behind before the instruction: those of a
\* comparison of a smaller with a larger unsigned number.
SomeFlags == [N |-> 1, Z |-> 0, C |-> 0, V |-> 1]

\* One ADD, ADDS, SUB or SUBS of either size in its immediate, shifted
\* register or extended register form, with x0 or x1 as the destination, x1
\* as Rn and x2 as Rm, and the values of x1 and x2 before.
AddSubPrograms ==
  LET Common == {[operation |-> o, is_64_bits |-> x, set_flags |-> f,
                  rd |-> d, rn_val |-> n] :
                   o \in {"ADD", "SUB"}, x \in BOOLEAN, f \in BOOLEAN,
                   d \in 0..1, n \in {Zero, Bits(31), {31}, AllOnes}}
      RmValues == {Zero, {0}, {7}, {31}, AllOnes}
      Amounts == {0, MaxShift}
  IN {[form |-> "AddSubImmediate", common |-> c, rm_val |-> Zero,
       kind |-> "LSL", amount |-> sh, imm12 |-> imm] :
        c \in Common, sh \in 0..1, imm \in {0, 1, 4095}} \cup
     {[form |-> "AddSubShifted", common |-> c, rm_val |-> m,
       kind |-> k, amount |-> a, imm12 |-> 0] :
        c \in Common, m \in RmValues, k \in Shifts, a \in Amounts} \cup
     {[form |-> "AddSubExtended", common |-> c, rm_val |-> m,
       kind |-> k, amount |-> a, imm12 |-> 0] :
        c \in Common, m \in RmValues, k \in Extends, a \in Amounts}

InitAddSub ==
  /\ program \in AddSubPrograms
  /\ xreg = [ResetXRegs EXCEPT ![1] = program.common.rn_val,
                               ![2] = program.rm_val]
  /\ nzcv = SomeFlags
  /\ mem = PatternMem
  /\ local_monitor = MonitorClear
  /\ pc = Zero
  /\ btype = "DefaultBType"
  /\ next_btype = "DefaultBType"
  /\ guard_pages = FALSE
  /\ tbi = [t \in PointerTypes |-> TRUE]
  /\ state = "run"
  /\ instr = [op |-> "reset"]
  /\ pre = [op |-> "none"]
  /\ hist = <<>>
  /\ ret = Zero
  /\ VectorsConstructed
  /\ FeaturesConstructed
  /\ OneInstance

AddSubStep == Len(hist) < MaxAddSubSteps

AddSub_Immediate ==
  /\ AddSubStep
  /\ program.form = "AddSubImmediate"
  /\ VisitAddSubImmediate(program.common.operation, program.common.is_64_bits,
                          program.common.set_flags, program.common.rd, 1,
                          program.imm12, program.amount = 1)

AddSub_Shifted ==
  /\ AddSubStep
  /\ program.form = "AddSubShifted"
  /\ VisitAddSubShifted(program.common.operation, program.common.is_64_bits,
                        program.common.set_flags, program.common.rd, 1, 2,
                        program.kind, program.amount)

AddSub_Extended ==
  /\ AddSubStep
  /\ program.form = "AddSubExtended"
  /\ VisitAddSubExtended(program.common.operation, program.common.is_64_bits,
                         program.common.set_flags, program.common.rd, 1, 2,
                         program.kind, program.amount)

NextAddSub == AddSub_Immediate \/ AddSub_Shifted \/ AddSub_Extended

SpecAddSub == InitAddSub /\ [][NextAddSub]_vars

\* C11: for both widths ADD and ADDS leave (Rn + op2) mod 2^size in Rd, SUB
\* and SUBS leave (Rn - op2) mod 2^size, the value that added to op2 gives
\* Rn mod 2^size; ADD and SUB leave N, Z, C and V as they were; after SUBS
\* C is 1 iff Rn >= op2 as unsigned size-bit values and Z is 1 iff they are
\* equal.
C11_AddSub ==
  instr.op \in AddSubForms =>
    LET n == IF instr.is_64_bits THEN kXRegSize ELSE kWRegSize
        a == And(pre.xreg[instr.rn], Bits(n))
        b == And(instr.op2, Bits(n))
        d == And(xreg[instr.rd], Bits(n))
    IN /\ instr.operation = "ADD" => d = SumBits(a, b, 0, n)
       /\ instr.operation = "SUB" => SumBits(d, b, 0, n) = a
       /\ ~instr.set_flags => nzcv = pre.nzcv
       /\ (instr.operation = "SUB" /\ instr.set_flags) =>
            /\ nzcv.C = 1 <=> ~ULT(a, b)
            /\ nzcv.Z = 1 <=> a = b

\* ADDS w0, w1, w2 with w1 = 0x7fffffff and w2 = 1: w0 = 0x80000000 and
\* N=1, Z=0, C=0, V=1.
C11_Witness ==
  /\ instr.op = "AddSubShifted" /\ instr.operation = "ADD"
  /\ instr.set_flags /\ ~instr.is_64_bits /\ instr.rd = 0
  /\ pre.xreg[1] = Bits(31) /\ pre.xreg[2] = {0} /\ instr.op2 = {0}
  /\ xreg[0] = {31}
  /\ nzcv = [N |-> 1, Z |-> 0, C |-> 0, V |-> 1]

----------------------------------------------------------------------------
(* SDIV and UDIV *)

RECURSIVE DivBits(_, _, _, _, _)
\* n steps of binary long division of a by b, from bit i + n - 1 of a down
\* to bit i, continuing from the quotient and remainder in start.
DivBits(a, b, start, i, n) ==
  IF n = 0 THEN start
  ELSE LET p == DivBits(a, b, start, i + 1, n - 1)
           r2 == Or(Shl(p.r, 1), IF i \in a THEN {0} ELSE {})
       IN IF 63 \in p.r \/ ~ULT(r2, b)
          THEN [q |-> p.q \cup {i}, r |-> Sub64(r2, b)]
          ELSE [q |-> p.q, r |-> r2]

\* a / b on uint64_t, b # 0, sixteen bits of a at a time.  No quotient is
\* {-1}: the comparisons only make each partial result be evaluated before
\* the next sixteen steps start.
UDiv64(a, b) ==
  LET s0 == [q |-> Zero, r |-> Zero]
      s1 == IF a \cap (48..63) = {} THEN s0 ELSE DivBits(a, b, s0, 48, 16)
  IN IF s1.q = {-1} THEN Zero ELSE
     LET s2 == IF a \cap (32..63) = {} THEN s0 ELSE DivBits(a, b, s1, 32, 16)
     IN IF s2.q = {-1} THEN Zero ELSE
        LET s3 == IF a \cap (16..63) = {} THEN s0 ELSE DivBits(a, b, s2, 16, 16)
        IN IF s3.q = {-1} THEN Zero ELSE DivBits(a, b, s3, 0, 16).q

\* The magnitude of an int64_t, as a uint64_t.
Magnitude(a) == IF 63 \in a THEN Neg64(a) ELSE a

\* rn / rm on a signed type, both converted to int64_t, rm # 0 and the
\* quotient representable: the quotient of the magnitudes, negative iff
\* the signs differ.
SDiv64(rn, rm) ==
  LET q == UDiv64(Magnitude(rn), Magnitude(rm))
  IN IF (63 \in rn) # (63 \in rm) THEN Neg64(q) ELSE q

kWMinInt == SignExtend({31}, kWRegSize)
kXMinInt == {63}

\* The SDIV_w and SDIV_x cases of VisitDataProcessing2Source.
SDIV(is_64_bits, rn_code, rm_code) ==
  LET rn == IF is_64_bits THEN ReadXRegister(xreg, rn_code, "Reg31IsZeroRegister")
            ELSE ReadWRegisterInt64(xreg, rn_code)
      rm == IF is_64_bits THEN ReadXRegister(xreg, rm_code, "Reg31IsZeroRegister")
            ELSE ReadWRegisterInt64(xreg, rm_code)
      min_int == IF is_64_bits THEN kXMinInt ELSE kWMinInt
  IN IF rn = min_int /\ rm = AllOnes THEN min_int
     ELSE IF rm = Zero THEN Zero
     ELSE SDiv64(rn, rm)

\* UDIV without the test for a zero divisor.
UDIV_NoZeroCheck(is_64_bits, rn_code, rm_code) ==
  LET reg_size == IF is_64_bits THEN kXRegSize ELSE kWRegSize
      rn == ReadRegister(xreg, reg_size, rn_code, "Reg31IsZeroRegister")
      rm == ReadRegister(xreg, reg_size, rm_code, "Reg31IsZeroRegister")
  IN UDiv64(rn, rm)

\* The UDIV_w and UDIV_x cases of VisitDataProcessing2Source.
UDIV(is_64_bits, rn_code, rm_code) ==
  LET reg_size == IF is_64_bits THEN kXRegSize ELSE kWRegSize
      rn == ReadRegister(xreg, reg_size, rn_code, "Reg31IsZeroRegister")
      rm == ReadRegister(xreg, reg_size, rm_code, "Reg31IsZeroRegister")
  IN IF rm = Zero THEN Zero ELSE UDiv64(rn, rm)

\* Simulator::VisitDataProcessing2Source, the division encodings.
VisitDataProcessing2Source(mnemonic, is_64_bits, rd, rn, rm) ==
  LET reg_size == IF is_64_bits THEN kXRegSize ELSE kWRegSize
      result == CASE mnemonic = "SDIV" -> SDIV(is_64_bits, rn, rm)
                  [] mnemonic = "UDIV" -> UDIV(is_64_bits, rn, rm)
      i == [op |-> "DataProcessing2Source", mnemonic |-> mnemonic,
            is_64_bits |-> is_64_bits, rd |-> rd, rn |-> rn, rm |-> rm]
  IN /\ state = "run"
     /\ mnemonic \in {"SDIV", "UDIV"}
     /\ xreg' = WriteRegister(xreg, reg_size, rd, result, "Reg31IsZeroRegister")
     /\ Advance
     /\ Executed(i)
     /\ UNCHANGED <<nzcv, mem, local_monitor, state>>

\* The number of times the instruction of a division program is executed.
MaxDivSteps == 1

\* Dividends and divisors: 0, 1, -1, small numbers of either sign, the
\* minimum and maximum signed integers of both widths, and values whose
\* upper half differs from the sign extension of the lower.
DivValues ==
  {Zero, {0}, AllOnes, {0, 1, 2}, Neg64({0, 1, 2}), NatToBits(100),
   {31}, Bits(31), Bits(32), kWMinInt, {63}, Bits(63), kBadBeef,
   Or(AllOnes \ Bits(32), {0, 1})}

InitDiv ==
  /\ \E m \in {"SDIV", "UDIV"}, x \in BOOLEAN, n \in DivValues, d \in DivValues :
       program = [mnemonic |-> m, is_64_bits |-> x, rn_val |-> n, rm_val |-> d]
  /\ xreg = [ResetXRegs EXCEPT ![1] = program.rn_val, ![2] = program.rm_val]
  /\ nzcv = NoFlag
  /\ mem = PatternMem
  /\ local_monitor = MonitorClear
  /\ pc = Zero
  /\ btype = "DefaultBType"
  /\ next_btype = "DefaultBType"
  /\ guard_pages = FALSE
  /\ tbi = [t \in PointerTypes |-> TRUE]
  /\ state = "run"
  /\ instr = [op |-> "reset"]
  /\ pre = [op |-> "none"]
  /\ hist = <<>>
  /\ ret = Zero
  /\ VectorsConstructed
  /\ FeaturesConstructed
  /\ OneInstance

DivStep == Len(hist) < MaxDivSteps

Div_SDIV ==
  /\ DivStep
  /\ program.mnemonic = "SDIV"
  /\ VisitDataProcessing2Source("SDIV", program.is_64_bits, 0, 1, 2)

Div_UDIV ==
  /\ DivStep
  /\ program.mnemonic = "UDIV"
  /\ VisitDataProcessing2Source("UDIV", program.is_64_bits, 0, 1, 2)

NextDiv == Div_SDIV \/ Div_UDIV

SpecDiv == InitDiv /\ [][NextDiv]_vars

\* Byte k of a 64-bit value, as a number.
Limb8(a, k) == BitsToNat({i - 8 * k : i \in a \cap (8 * k)..(8 * k + 7)})

\* Byte i of a times byte k - i of b, when b has such a byte.
MulTerm(a, b, i, k) ==
  IF k - i \in 0..7 THEN Limb8(a, i) * Limb8(b, k - i) ELSE 0

RECURSIVE MulColumn(_, _, _)
\* Column k of the schoolbook product of a and b in base 256, with the
\* carry of the columns below.
MulColumn(a, b, k) ==
  MulTerm(a, b, 0, k) + MulTerm(a, b, 1, k) + MulTerm(a, b, 2, k) +
  MulTerm(a, b, 3, k) + MulTerm(a, b, 4, k) + MulTerm(a, b, 5, k) +
  MulTerm(a, b, 6, k) + MulTerm(a, b, 7, k) +
  (IF k = 0 THEN 0 ELSE MulColumn(a, b, k - 1) \div 256)

\* The exact 128-bit product of two 64-bit values, as its set bits.
Mul128(a, b) ==
  UNION {{8 * k + i : i \in NatToBits(MulColumn(a, b, k) % 256)} : k \in 0..15}

\* q is n / m truncated toward zero, for unsigned magnitudes: q * m <= n
\* and n - q * m < m.
IsQuotient(q, n, m) ==
  LET prod == Mul128(q, m)
  IN /\ prod \subseteq Bits(kXRegSize)
     /\ ~ULT(n, prod)
     /\ ULT(Sub64(n, prod), m)

\* C12: SDIV and UDIV never abort; at both widths the result is 0 when the
\* divisor is 0, SDIV of the minimum signed integer by -1 gives the minimum
\* signed integer, and for every other operand pair the result is the
\* quotient truncated toward zero: its magnitude times the divisor's does
\* not exceed the dividend's and falls short of it by less than the
\* divisor's magnitude, and a nonzero SDIV quotient is negative iff the
\* operands' signs differ.
C12_Division ==
  instr.op = "DataProcessing2Source" =>
    LET n == IF instr.is_64_bits THEN kXRegSize ELSE kWRegSize
        rn == And(pre.xreg[instr.rn], Bits(n))
        rm == And(pre.xreg[instr.rm], Bits(n))
        rd == And(xreg[instr.rd], Bits(n))
        Neg(v) == (n - 1) \in v
        Mag(v) == IF Neg(v) THEN And(Neg64(v), Bits(n)) ELSE v
    IN /\ state = "run"
       /\ pc = Add64(pre.pc, NatToBits(4), 0)
       /\ rm = Zero => rd = Zero
       /\ (instr.mnemonic = "UDIV" /\ rm # Zero) => IsQuotient(rd, rn, rm)
       /\ (instr.mnemonic = "SDIV" /\ rn = {n - 1} /\ rm = Bits(n)) =>
            rd = {n - 1}
       /\ (instr.mnemonic = "SDIV" /\ rm # Zero
           /\ ~(rn = {n - 1} /\ rm = Bits(n))) =>
            /\ IsQuotient(Mag(rd), Mag(rn), Mag(rm))
            /\ rd # Zero => (Neg(rd) <=> (Neg(rn) # Neg(rm)))

\* SDIV w0, w1, w2 with w1 the minimum 32-bit integer and w2 = -1, the
\* upper half of x2 being zero: w0 is the minimum 32-bit integer.
C12_Witness ==
  /\ instr.op = "DataProcessing2Source" /\ instr.mnemonic = "SDIV"
  /\ ~instr.is_64_bits
  /\ pre.xreg[1] = {31} /\ pre.xreg[2] = Bits(32)
  /\ xreg[0] = {31}
  /\ state = "run"

----------------------------------------------------------------------------
(* The vector length *)

\* Simulator::SetVectorLengthInBits(vector_length), a call of the embedder
\* between instructions; the length is one its assertions accept.
SetVectorLengthInBits(vl) ==
  LET files == SetVectorLength(vregisters, pregisters, vl)
      i == [op |-> "SetVectorLengthInBits", vector_length |-> vl]
  IN /\ state = "run"
     /\ vl >= kZRegMinSize /\ vl <= kZRegMaxSize
     /\ vl % kZRegMinSize = 0
     /\ vector_length' = vl
     /\ vregisters' = files.vregisters
     /\ pregisters' = files.pregisters
     /\ Recorded(i)
     /\ UNCHANGED <<xreg, nzcv, mem, local_monitor, pc, btype, next_btype,
                    state, fpcr>>

\* Simulator::ResetState: ResetSystemRegisters, ResetRegisters (the write
\* to register 31 is one to the zero register), ResetVRegisters,
\* ResetPRegisters, the PC and the BTI state.
ResetState ==
  LET i == [op |-> "ResetState"]
  IN /\ state = "run"
     /\ nzcv' = NoFlag
     /\ fpcr' = DefaultFpcr
     /\ xreg' = [c \in RegCodes |->
                   IF c = kLinkRegCode THEN kEndOfSimAddress
                   ELSE IF c = kZeroRegCode THEN xreg[c]
                   ELSE kBadBeef]
     /\ vregisters' = ResetVRegisters(vregisters, vector_length)
     /\ pregisters' = ResetPRegisters(pregisters, vector_length)
     /\ pc' = Zero
     /\ btype' = "DefaultBType"
     /\ next_btype' = "DefaultBType"
     /\ Recorded(i)
     /\ UNCHANGED <<mem, local_monitor, state, vector_length>>

\* Simulator::VisitSVEIntWideImmUnpredicated, DUP_z_i with D lanes: every
\* lane of zd becomes the immediate.
VisitSVEIntWideImmUnpredicated_DUP(zd, imm) ==
  LET lane_count == vregisters[zd].size_in_bytes \div kDRegSizeInBytes
      lane_value == [lane \in 0..(lane_count - 1) |-> NatToBits(imm)]
      i == [op |-> "SVEIntWideImmUnpredicated", mnemonic |-> "DUP", zd |-> zd]
  IN /\ state = "run"
     /\ vregisters' = [vregisters EXCEPT
                         ![zd].value = InsertLanes(@, lane_count, lane_value)]
     /\ Advance
     /\ Recorded(i)
     /\ UNCHANGED <<xreg, nzcv, mem, local_monitor, state, vector_length,
                    pregisters, fpcr>>

\* Simulator::VisitSVEPredicateZero, PFALSE: every lane of pd becomes 0.
VisitSVEPredicateZero(pd) ==
  LET lane_count == pregisters[pd].size_in_bytes \div kHRegSizeInBytes
      lane_value == [lane \in 0..(lane_count - 1) |-> 0]
      i == [op |-> "SVEPredicateZero", mnemonic |-> "PFALSE", pd |-> pd]
  IN /\ state = "run"
     /\ pregisters' = [pregisters EXCEPT
                         ![pd].value = InsertLanes(@, lane_count, lane_value)]
     /\ Advance
     /\ Recorded(i)
     /\ UNCHANGED <<xreg, nzcv, mem, local_monitor, state, vector_length,
                    vregisters, fpcr>>

\* The bits of FPCR a write changes: AHP, DN, FZ and RMode.
FpcrWritable == 22..26

\* Simulator::VisitSystem, MSR FPCR, xt.
VisitSystem_MSR_FPCR(rt) ==
  LET i == [op |-> "System", mnemonic |-> "MSR", rt |-> rt]
  IN /\ state = "run"
     /\ fpcr' = And(ReadWRegister(xreg, rt), FpcrWritable)
     /\ Advance
     /\ Recorded(i)
     /\ UNCHANGED <<xreg, nzcv, mem, local_monitor, state, vector_length,
                    vregisters, pregisters>>

\* The number of calls and instructions of a vector-length scenario.
MaxVLSteps == 3

\* The vector lengths the embedder asks for: the smallest, the next and the
\* largest.
VectorLengths == {kZRegMinSize, 2 * kZRegMinSize, kZRegMaxSize}

InitVL ==
  /\ Constructed
  /\ nzcv = NoFlag
  /\ program = [op |-> "VectorLength"]
  /\ instr = [op |-> "reset"]
  /\ pre = [op |-> "none"]
  /\ hist = <<>>
  /\ ret = Zero

VLStep == Len(hist) < MaxVLSteps

VL_SetVectorLengthInBits ==
  /\ VLStep
  /\ \E vl \in VectorLengths : SetVectorLengthInBits(vl)

VL_ResetState == VLStep /\ ResetState

VL_DUP == VLStep /\ VisitSVEIntWideImmUnpredicated_DUP(0, 1)

VL_PFALSE == VLStep /\ VisitSVEPredicateZero(15)

VL_MSR == VLStep /\ VisitSystem_MSR_FPCR(1)

VL_ADDS ==
  /\ VLStep
  /\ VisitAddSubImmediate("ADD", TRUE, TRUE, 0, 1, 1, FALSE)

VL_BLR == VLStep /\ VisitUnconditionalBranchToRegister("BLR", 1, 0)

NextVL ==
  \/ VL_SetVectorLengthInBits
  \/ VL_ResetState
  \/ VL_DUP
  \/ VL_PFALSE
  \/ VL_MSR
  \/ VL_ADDS
  \/ VL_BLR

SpecVL == InitVL /\ [][NextVL]_vars

\* C14: after construction and any sequence of SetVectorLengthInBits and
\* ResetState calls and instructions, every Z register is vector_length / 8
\* bytes and every P register vector_length / 64 bytes; after a
\* SetVectorLengthInBits call every lane of every Z and P register within
\* the new length holds the reset fill pattern, and the general registers,
\* NZCV, FPCR, the PC and the BType are what they were before the call.
C14_VectorLength ==
  /\ vector_length % kZRegMinSize = 0
  /\ \A z \in ZRegCodes : vregisters[z].size_in_bytes * 8 = vector_length
  /\ \A p \in PRegCodes : pregisters[p].size_in_bytes * 64 = vector_length
  /\ instr.op = "SetVectorLengthInBits" =>
       /\ vector_length = instr.vector_length
       /\ \A z \in ZRegCodes : \A lane \in 0..(vector_length \div 64 - 1) :
            /\ lane \in DOMAIN vregisters[z].value
            /\ vregisters[z].value[lane] = NaNBits(z, lane)
       /\ \A p \in PRegCodes : \A lane \in 0..(vector_length \div 128 - 1) :
            /\ lane \in DOMAIN pregisters[p].value
            /\ pregisters[p].value[lane] = 256 * lane + p
       /\ xreg = pre.xreg /\ nzcv = pre.nzcv /\ fpcr = pre.fpcr
       /\ pc = pre.pc /\ btype = pre.btype

\* The vector length is raised to the maximum after DUP has overwritten z0
\* and MSR has changed FPCR: z0 holds the fill pattern again, in all of its
\* 32 D lanes, and FPCR keeps its value.
C14_Witness ==
  /\ Len(hist) = 3 /\ instr.op = "SetVectorLengthInBits"
  /\ instr.vector_length = kZRegMaxSize
  /\ pre.vector_length = kZRegMinSize
  /\ pre.vregisters[0].value[0] = {0}
  /\ pre.fpcr # DefaultFpcr
  /\ vregisters[0].value[31] = NaNBits(0, 31)
  /\ fpcr = pre.fpcr

----------------------------------------------------------------------------
(* Run *)

\* The longest program and the most instructions one Run executes.
MaxRunLen == 3
MaxRunSteps == 5

\* Where the code of the simulated program starts.
kCodeStart == NatToBits(64)

\* The instructions of the programs: NOP, MOV x30, #kCodeStart and RET.
RunInstructions == {"NOP", "MOVZ_LR", "RET"}

RECURSIVE CodeOfLength(_)
\* The instruction sequences of length n.
CodeOfLength(n) ==
  IF n = 0 THEN {<<>>}
  ELSE {Append(c, i) : c \in CodeOfLength(n - 1), i \in RunInstructions}

\* The instruction at address p: the code occupies 4 bytes an instruction
\* from kCodeStart; no instruction of the program lies elsewhere.
Fetch(p) ==
  LET first == BitsToNat(kCodeStart)
      a == BitsToNat(p)
  IN IF a >= first /\ a < first + 4 * Len(program.code) /\ (a - first) % 4 = 0
     THEN program.code[(a - first) \div 4 + 1]
     ELSE "unmapped"

\* A loop that does not test the PC.
RunContinues_Always(p) == TRUE

\* The condition of the loop of Simulator::Run.
RunContinues(p) == p # kEndOfSimAddress

\* Run() is entered after construction, with the PC ResetState left, or
\* from RunFrom(kCodeStart), which has written the PC.
InitRun ==
  /\ \E start \in {"Run", "RunFrom"}, n \in 1..MaxRunLen :
       \E code \in CodeOfLength(n) :
         program = [start |-> start, code |-> code]
  /\ xreg = ResetXRegs
  /\ nzcv = NoFlag
  /\ mem = PatternMem
  /\ local_monitor = MonitorClear
  /\ pc = IF program.start = "RunFrom" THEN kCodeStart ELSE Zero
  /\ btype = "DefaultBType"
  /\ next_btype = "DefaultBType"
  /\ guard_pages = FALSE
  /\ tbi = [t \in PointerTypes |-> TRUE]
  /\ state = "run"
  /\ instr = [op |-> "reset"]
  /\ pre = [op |-> "none"]
  /\ hist = <<>>
  /\ ret = Zero
  /\ VectorsConstructed
  /\ FeaturesConstructed
  /\ OneInstance

\* One more iteration of the loop of Run is due.
RunStep ==
  /\ state = "run"
  /\ RunContinues(pc)
  /\ Len(hist) < MaxRunSteps

Run_NOP == RunStep /\ Fetch(pc) = "NOP" /\ VisitSystem_NOP

Run_MOVZ ==
  /\ RunStep
  /\ Fetch(pc) = "MOVZ_LR"
  /\ VisitMoveWideImmediate("MOVZ", TRUE, kLinkRegCode, BitsToNat(kCodeStart), 0)

Run_RET ==
  /\ RunStep
  /\ Fetch(pc) = "RET"
  /\ VisitUnconditionalBranchToRegister("RET", kLinkRegCode, 0)

\* ExecuteInstruction at an address that holds no instruction of the
\* program: the host's fault, not the simulator's.
Run_Fault ==
  /\ RunStep
  /\ Fetch(pc) = "unmapped"
  /\ state' = "host_fault"
  /\ Executed([op |-> "unmapped"])
  /\ UNCHANGED <<xreg, nzcv, mem, local_monitor, pc, btype, next_btype>>

\* The loop of Run ends and Run returns.
Run_Return ==
  /\ state = "run"
  /\ ~RunContinues(pc)
  /\ state' = "done"
  /\ UNCHANGED <<xreg, nzcv, mem, local_monitor, pc, btype, next_btype,
                 guard_pages, tbi, instr, pre, hist, program, ret,
                 vector_length, vregisters, pregisters, fpcr,
                 cpu_features, saved_cpu_features_, instances>>

NextRun ==
  \/ Run_NOP
  \/ Run_MOVZ
  \/ Run_RET
  \/ Run_Fault
  \/ Run_Return

\* Run is a sequential loop: while it can take a step it does.
SpecRun == InitRun /\ [][NextRun]_vars /\ WF_vars(NextRun)

\* A RET has just branched through a link register that still held what
\* ResetRegisters wrote.
ReturnedThroughLinkRegister ==
  /\ instr.op = "BranchToRegister" /\ instr.form = "RET"
  /\ instr.rn = kLinkRegCode
  /\ \A k \in 1..Len(hist) : hist[k].op # "MoveWideImmediate"

\* C15: Run executes an instruction only while the PC differs from
\* kEndOfSimAddress, returns only when the PC equals it, and executes
\* nothing once it does; reset leaves kEndOfSimAddress in the link
\* register, and when the program reaches a RET through the unmodified
\* link register Run returns.
C15_Run ==
  /\ [](hist # <<>> => pre.pc # kEndOfSimAddress)
  /\ [](state = "done" => pc = kEndOfSimAddress)
  /\ [][pc = kEndOfSimAddress => hist' = hist]_vars
  /\ [](hist = <<>> => xreg[kLinkRegCode] = kEndOfSimAddress)
  /\ (ReturnedThroughLinkRegister ~> state = "done")

\* Run has returned after NOP; RET from kCodeStart, the RET having branched
\* to kEndOfSimAddress.
C15_Witness ==
  /\ state = "done"
  /\ program.start = "RunFrom"
  /\ Len(hist) = 2 /\ hist[1].op = "NOP"
  /\ ReturnedThroughLinkRegister
  /\ pre.pc = Add64(kCodeStart, NatToBits(4), 0)
  /\ pc = kEndOfSimAddress

----------------------------------------------------------------------------
(* Loads and stores relative to the stack pointer *)

AddrModes == {"Offset", "PreIndex", "PostIndex"}

\* Simulator::AddressModeHelper(addr_reg, offset, addrmode): whether the
\* stack alignment fault is raised and, when it is not, the registers
\* after the write-back and the address of the access.
AddressModeHelper(addr_reg, offset, addrmode) ==
  LET address == ReadXRegister(xreg, addr_reg, "Reg31IsStackPointer")
      updated == Add64(address, NatToBits(offset), 0)
  IN [fault |-> addr_reg = 31 /\ address \cap Bits(4) # {},
      xreg |-> IF addrmode \in {"PreIndex", "PostIndex"}
               THEN WriteRegister(xreg, kXRegSize, addr_reg, updated,
                                  "Reg31IsStackPointer")
               ELSE xreg,
      address |-> IF addrmode \in {"Offset", "PreIndex"}
                  THEN updated ELSE address]

\* An access of the host's memory outside the simulated bytes.
HostFault(i, regs) ==
  /\ state' = "host_fault"
  /\ xreg' = regs
  /\ Executed(i)
  /\ UNCHANGED <<nzcv, mem, local_monitor, pc, btype, next_btype>>

\* LoadStoreHelper that loses the write-back of the base register.
LoadStoreHelper_NoWriteBack(op, srcdst, rn, offset, addrmode, maybe_clear) ==
  LET am == AddressModeHelper(rn, offset, addrmode)
      i == [op |-> "LoadStore", mnemonic |-> op, rt |-> srcdst, rn |-> rn,
            offset |-> offset, addrmode |-> addrmode]
  IN /\ state = "run"
     /\ op \in {"LDR_x", "STR_x"}
     /\ addrmode \in AddrModes
     /\ addrmode # "Offset" => offset # 0
     /\ IF am.fault THEN Abort(i)
        ELSE IF ~AddrInMem(am.address, 8) THEN HostFault(i, xreg)
        ELSE /\ IF op = "LDR_x"
                THEN /\ xreg' = WriteXRegister(xreg, srcdst,
                                               MemRead(mem, am.address, 8))
                     /\ mem' = mem
                ELSE /\ xreg' = xreg
                     /\ mem' = MemWrite(mem, am.address, 8,
                                        ReadXRegister(xreg, srcdst,
                                                      "Reg31IsZeroRegister"))
             /\ local_monitor' = IF maybe_clear THEN MonitorClear
                                 ELSE local_monitor
             /\ Advance
             /\ Executed(i)
             /\ UNCHANGED <<nzcv, state>>

\* Simulator::LoadStoreHelper(instr, offset, addrmode) for LDR_x and STR_x;
\* maybe_clear is whether MaybeClear clears the local monitor.
LoadStoreHelper(op, srcdst, rn, offset, addrmode, maybe_clear) ==
  LET am == AddressModeHelper(rn, offset, addrmode)
      i == [op |-> "LoadStore", mnemonic |-> op, rt |-> srcdst, rn |-> rn,
            offset |-> offset, addrmode |-> addrmode]
  IN /\ state = "run"
     /\ op \in {"LDR_x", "STR_x"}
     /\ addrmode \in AddrModes
     /\ addrmode # "Offset" => offset # 0
     /\ IF am.fault THEN Abort(i)
        ELSE IF ~AddrInMem(am.address, 8) THEN HostFault(i, am.xreg)
        ELSE /\ IF op = "LDR_x"
                THEN /\ xreg' = WriteXRegister(am.xreg, srcdst,
                                               MemRead(mem, am.address, 8))
                     /\ mem' = mem
                ELSE /\ xreg' = am.xreg
                     /\ mem' = MemWrite(mem, am.address, 8,
                                        ReadXRegister(am.xreg, srcdst,
                                                      "Reg31IsZeroRegister"))
             /\ local_monitor' = IF maybe_clear THEN MonitorClear
                                 ELSE local_monitor
             /\ Advance
             /\ Executed(i)
             /\ UNCHANGED <<nzcv, state>>

\* The access of element_size bytes at address lies within one aligned
\* 16-byte granule.
WithinGranule(address, element_size) ==
  (address \ Bits(4)) =
    (Add64(address, NatToBits(element_size - 1), 0) \ Bits(4))

\* Simulator::LoadAcquireRCpcUnscaledOffsetHelper<uint64_t, uint64_t>
\* (LDAPUR_x) and StoreReleaseUnscaledOffsetHelper<uint64_t> (STLUR_x).
VisitLoadStoreRCpcUnscaledOffset(op, rt, rn, offset) ==
  LET element_size == 8
      address == Add64(ReadXRegister(xreg, rn, "Reg31IsStackPointer"),
                       NatToBits(offset), 0)
      i == [op |-> "LoadStoreRCpcUnscaledOffset", mnemonic |-> op, rt |-> rt,
            rn |-> rn, offset |-> offset, addrmode |-> "Offset"]
  IN /\ state = "run"
     /\ op \in {"LDAPUR_x", "STLUR_x"}
     /\ IF ~WithinGranule(address, element_size) THEN Abort(i)
        ELSE IF ~AddrInMem(address, element_size) THEN HostFault(i, xreg)
        ELSE /\ IF op = "LDAPUR_x"
                THEN /\ xreg' = WriteXRegister(xreg, rt,
                                               MemRead(mem, address, element_size))
                     /\ mem' = mem
                ELSE /\ xreg' = xreg
                     /\ mem' = MemWrite(mem, address, element_size,
                                        ReadXRegister(xreg, rt,
                                                      "Reg31IsZeroRegister"))
             /\ Advance
             /\ Executed(i)
             /\ UNCHANGED <<nzcv, local_monitor, state>>

kQRegSizeInBytes == 16

kNumberOfVRegisters == 32

\* The D lanes of a Q register's worth of memory at address.
QLanesAt(m, address) ==
  [lane \in 0..(kQRegSizeInBytes \div kDRegSizeInBytes - 1) |->
     MemRead(m, Add64(address, NatToBits(kDRegSizeInBytes * lane), 0),
             kDRegSizeInBytes)]

RECURSIVE LoadQRegisters(_, _, _, _, _)
\* ld1 of count consecutive registers from rt on, 16 bytes each, from
\* addr_base on.
LoadQRegisters(vregs, m, rt, addr_base, count) ==
  IF count = 0 THEN vregs
  ELSE LET reg == (rt + count - 1) % kNumberOfVRegisters
           addr == Add64(addr_base, NatToBits((count - 1) * kQRegSizeInBytes), 0)
           rest == LoadQRegisters(vregs, m, rt, addr_base, count - 1)
       IN [rest EXCEPT
             ![reg].value = InsertLanes(@, kQRegSizeInBytes \div kDRegSizeInBytes,
                                        QLanesAt(m, addr))]

RECURSIVE StoreQRegisters(_, _, _, _, _)
\* st1 of count consecutive registers from rt on to addr_base on.
StoreQRegisters(vregs, m, rt, addr_base, count) ==
  IF count = 0 THEN m
  ELSE LET reg == (rt + count - 1) % kNumberOfVRegisters
           addr == Add64(addr_base, NatToBits((count - 1) * kQRegSizeInBytes), 0)
           rest == StoreQRegisters(vregs, m, rt, addr_base, count - 1)
           low == MemWrite(rest, addr, kDRegSizeInBytes, vregs[reg].value[0])
       IN MemWrite(low, Add64(addr, NatToBits(kDRegSizeInBytes), 0),
                   kDRegSizeInBytes, vregs[reg].value[1])

\* Simulator::NEONLoadStoreMultiStructHelper for LD1 and ST1 of count
\* registers {vt.16B, ...}, [xn] and their post-index forms, with the
\* register rm or, for rm = 31, the immediate the register count implies.
NEONLoadStoreMultiStructHelper(mnemonic, count, rt, rn, rm, addr_mode) ==
  LET addr_base == ReadXRegister(xreg, rn, "Reg31IsStackPointer")
      reg_size == kQRegSizeInBytes
      updated == Add64(addr_base,
                       IF rm = 31 THEN NatToBits(reg_size * count)
                       ELSE ReadXRegister(xreg, rm, "Reg31IsZeroRegister"), 0)
      i == [op |-> "NEONLoadStoreMultiStruct", mnemonic |-> mnemonic, rt |-> rt,
            rn |-> rn, rm |-> rm, count |-> count, offset |-> 0,
            addrmode |-> addr_mode]
  IN /\ state = "run"
     /\ addr_mode \in {"Offset", "PostIndex"}
     /\ mnemonic \in {"LD1", "ST1"}
     /\ IF ~AddrInMem(addr_base, reg_size * count)
        THEN /\ HostFault(i, xreg)
             /\ UNCHANGED <<vector_length, vregisters, pregisters, fpcr>>
        ELSE /\ IF mnemonic = "LD1"
                THEN /\ vregisters' = LoadQRegisters(vregisters, mem, rt,
                                                     addr_base, count)
                     /\ mem' = mem
                ELSE /\ mem' = StoreQRegisters(vregisters, mem, rt, addr_base,
                                               count)
                     /\ vregisters' = vregisters
             /\ xreg' = IF addr_mode = "PostIndex"
                        THEN WriteXRegister(xreg, rn, updated)
                        ELSE xreg
             /\ Advance
             /\ Recorded(i)
             /\ UNCHANGED <<nzcv, local_monitor, state, vector_length,
                            pregisters, fpcr>>

\* The number of times the instruction of a load/store program is executed.
MaxSPSteps == 1

\* One LDR, STR, LDAPUR, STLUR or LD1 with x2 or the stack pointer as the
\* base, the base holding 0, 8 or 16.
SPPrograms ==
  {[kind |-> "LoadStore", mnemonic |-> m, addrmode |-> a, offset |-> o,
    rn |-> n, base |-> b] :
     m \in {"LDR_x", "STR_x"}, a \in AddrModes, o \in {0, 8},
     n \in {2, 31}, b \in {Zero, {3}, {4}}} \cup
  {[kind |-> "RCpc", mnemonic |-> m, addrmode |-> "Offset", offset |-> o,
    rn |-> n, base |-> b] :
     m \in {"LDAPUR_x", "STLUR_x"}, o \in {0, 4, 8, 12},
     n \in {2, 31}, b \in {Zero, {3}, {4}}} \cup
  {[kind |-> "NEON", mnemonic |-> "LD1", addrmode |-> a, offset |-> 0,
    rn |-> n, base |-> b] :
     a \in {"Offset", "PostIndex"}, n \in {2, 31}, b \in {Zero, {3}, {4}}}

InitSP ==
  /\ program \in {p \in SPPrograms : p.addrmode # "Offset" => p.offset # 0}
  /\ xreg = [ResetXRegs EXCEPT ![program.rn] = program.base]
  /\ nzcv = NoFlag
  /\ mem = PatternMem
  /\ local_monitor = MonitorClear
  /\ pc = Zero
  /\ btype = "DefaultBType"
  /\ next_btype = "DefaultBType"
  /\ guard_pages = FALSE
  /\ tbi = [t \in PointerTypes |-> TRUE]
  /\ state = "run"
  /\ instr = [op |-> "reset"]
  /\ pre = [op |-> "none"]
  /\ hist = <<>>
  /\ ret = Zero
  /\ VectorsConstructed
  /\ FeaturesConstructed
  /\ OneInstance

SPStep == Len(hist) < MaxSPSteps

SP_LoadStore ==
  /\ SPStep
  /\ program.kind = "LoadStore"
  /\ \E maybe_clear \in BOOLEAN :
       LoadStoreHelper(program.mnemonic, 0, program.rn, program.offset,
                       program.addrmode, maybe_clear)

SP_RCpc ==
  /\ SPStep
  /\ program.kind = "RCpc"
  /\ VisitLoadStoreRCpcUnscaledOffset(program.mnemonic, 0, program.rn,
                                      program.offset)

SP_NEON ==
  /\ SPStep
  /\ program.kind = "NEON"
  /\ NEONLoadStoreMultiStructHelper("LD1", 1, 0, program.rn, 31, program.addrmode)

NextSP == SP_LoadStore \/ SP_RCpc \/ SP_NEON

SpecSP == InitSP /\ [][NextSP]_vars

\* The instruction executed last is a load or store whose base register is
\* the stack pointer, and the stack pointer was not 16-byte aligned.
MisalignedSPAccess ==
  /\ instr.op \in {"LoadStore", "LoadStoreRCpcUnscaledOffset",
                   "NEONLoadStoreMultiStruct"}
  /\ instr.rn = 31
  /\ pre.xreg[31] \cap Bits(4) # {}

\* C16: a load or store whose base register is the stack pointer raises the
\* alignment fault when the stack pointer is not 16-byte aligned, before
\* any write-back of the base, write of the destination register or access
\* of memory: the simulation has aborted with registers, vector registers
\* and memory as they were.
C16_SPAlignmentFault ==
  MisalignedSPAccess =>
    /\ state = "abort"
    /\ xreg = pre.xreg
    /\ mem = pre.mem
    /\ vregisters = pre.vregisters

\* LDAPUR x0, [sp] with sp = 8: no fault is raised and x0 holds the eight
\* bytes at address 8.
C16_Witness ==
  /\ MisalignedSPAccess
  /\ instr.mnemonic = "LDAPUR_x" /\ instr.offset = 0
  /\ pre.xreg[31] = {3}
  /\ state = "run"
  /\ xreg[0] = MemRead(pre.mem, {3}, 8)

----------------------------------------------------------------------------
(* Unallocated encodings and unimplemented groups *)

\* VIXL_UNIMPLEMENTED(): the fatal not-supported failure.
VIXL_UNIMPLEMENTED(i) == Abort(i)

\* The opcodes of the groups whose every case is a placeholder; "other" is
\* an encoding of the group that matches none of its cases.
SVEBitwiseShiftPredicatedOps ==
  {"ASRD_z_p_zi", "ASRR_z_p_zz", "ASR_z_p_zi", "ASR_z_p_zw", "ASR_z_p_zz",
   "LSLR_z_p_zz", "LSL_z_p_zi", "LSL_z_p_zw", "LSL_z_p_zz", "LSRR_z_p_zz",
   "LSR_z_p_zi", "LSR_z_p_zw", "LSR_z_p_zz", "other"}
SVEBitwiseShiftUnpredicatedOps ==
  {"ASR_z_zi", "ASR_z_zw", "LSL_z_zi", "LSL_z_zw", "LSR_z_zi", "LSR_z_zw",
   "other"}
SVEElementCountOps ==
  {"CNTB_r_s", "CNTD_r_s", "CNTH_r_s", "CNTW_r_s", "DECB_r_rs", "DECD_z_zs",
   "INCB_r_rs", "INCD_z_zs", "SQDECB_r_rs_sx", "SQINCD_z_zs",
   "UQDECB_r_rs_uw", "UQDECD_z_zs", "other"}
SVEAddressGenerationOps ==
  {"ADR_z_az_d_s32_scaled", "ADR_z_az_d_u32_scaled",
   "ADR_z_az_sd_same_scaled", "other"}

\* A handler that treats its opcodes as NOP instead of failing.
VisitSVEBitwiseShiftPredicated_Skips(opcode) ==
  /\ state = "run"
  /\ opcode \in SVEBitwiseShiftPredicatedOps
  /\ Advance
  /\ Executed([op |-> "SVEBitwiseShiftPredicated", opcode |-> opcode])
  /\ UNCHANGED <<xreg, nzcv, mem, local_monitor, state>>

\* Simulator::VisitSVEBitwiseShiftPredicated: every case of the switch and
\* its default are VIXL_UNIMPLEMENTED().
VisitSVEBitwiseShiftPredicated(opcode) ==
  /\ state = "run"
  /\ opcode \in SVEBitwiseShiftPredicatedOps
  /\ VIXL_UNIMPLEMENTED([op |-> "SVEBitwiseShiftPredicated", opcode |-> opcode])

\* Simulator::VisitSVEBitwiseShiftUnpredicated, likewise.
VisitSVEBitwiseShiftUnpredicated(opcode) ==
  /\ state = "run"
  /\ opcode \in SVEBitwiseShiftUnpredicatedOps
  /\ VIXL_UNIMPLEMENTED([op |-> "SVEBitwiseShiftUnpredicated", opcode |-> opcode])

\* Simulator::VisitSVEElementCount, likewise.
VisitSVEElementCount(opcode) ==
  /\ state = "run"
  /\ opcode \in SVEElementCountOps
  /\ VIXL_UNIMPLEMENTED([op |-> "SVEElementCount", opcode |-> opcode])

\* Simulator::VisitSVEAddressGeneration, likewise.
VisitSVEAddressGeneration(opcode) ==
  /\ state = "run"
  /\ opcode \in SVEAddressGenerationOps
  /\ VIXL_UNIMPLEMENTED([op |-> "SVEAddressGeneration", opcode |-> opcode])

\* Simulator::VisitUnallocated and VisitUnimplemented: a diagnostic, then
\* VIXL_UNIMPLEMENTED().
VisitUnallocated ==
  /\ state = "run"
  /\ VIXL_UNIMPLEMENTED([op |-> "Unallocated", opcode |-> "unallocated"])
VisitUnimplemented ==
  /\ state = "run"
  /\ VIXL_UNIMPLEMENTED([op |-> "Unimplemented", opcode |-> "unimplemented"])

\* The instructions of a program that ends in an unsupported encoding.
MaxUnimplSteps == 2

UnimplementedGroups ==
  {"SVEBitwiseShiftPredicated", "SVEBitwiseShiftUnpredicated",
   "SVEElementCount", "SVEAddressGeneration", "Unallocated", "Unimplemented"}

GroupOps(group) ==
  CASE group = "SVEBitwiseShiftPredicated" -> SVEBitwiseShiftPredicatedOps
    [] group = "SVEBitwiseShiftUnpredicated" -> SVEBitwiseShiftUnpredicatedOps
    [] group = "SVEElementCount" -> SVEElementCountOps
    [] group = "SVEAddressGeneration" -> SVEAddressGenerationOps
    [] OTHER -> {"none"}

\* The unsupported encoding the program holds, after instructions that
\* write a vector register, a predicate register, x0 and the flags.
InitUnimpl ==
  /\ Constructed
  /\ nzcv = NoFlag
  /\ \E g \in UnimplementedGroups : \E o \in GroupOps(g) :
       program = [group |-> g, opcode |-> o]
  /\ instr = [op |-> "reset"]
  /\ pre = [op |-> "none"]
  /\ hist = <<>>
  /\ ret = Zero

UnimplStep == Len(hist) < MaxUnimplSteps

\* The instructions before the unsupported one.
UnimplPrefix == Len(hist) < MaxUnimplSteps - 1

Unimpl_DUP == UnimplPrefix /\ VisitSVEIntWideImmUnpredicated_DUP(0, 1)
Unimpl_PFALSE == UnimplPrefix /\ VisitSVEPredicateZero(15)
Unimpl_ADDS ==
  /\ UnimplPrefix
  /\ VisitAddSubImmediate("ADD", TRUE, TRUE, 0, 1, 1, FALSE)

Unimpl_ShiftPredicated ==
  /\ UnimplStep
  /\ program.group = "SVEBitwiseShiftPredicated"
  /\ VisitSVEBitwiseShiftPredicated(program.opcode)

Unimpl_ShiftUnpredicated ==
  /\ UnimplStep
  /\ program.group = "SVEBitwiseShiftUnpredicated"
  /\ VisitSVEBitwiseShiftUnpredicated(program.opcode)

Unimpl_ElementCount ==
  /\ UnimplStep
  /\ program.group = "SVEElementCount"
  /\ VisitSVEElementCount(program.opcode)

Unimpl_AddressGeneration ==
  /\ UnimplStep
  /\ program.group = "SVEAddressGeneration"
  /\ VisitSVEAddressGeneration(program.opcode)

Unimpl_Unallocated ==
  /\ UnimplStep
  /\ program.group = "Unallocated"
  /\ VisitUnallocated

Unimpl_Unimplemented ==
  /\ UnimplStep
  /\ program.group = "Unimplemented"
  /\ VisitUnimplemented

NextUnimpl ==
  \/ Unimpl_DUP
  \/ Unimpl_PFALSE
  \/ Unimpl_ADDS
  \/ Unimpl_ShiftPredicated
  \/ Unimpl_ShiftUnpredicated
  \/ Unimpl_ElementCount
  \/ Unimpl_AddressGeneration
  \/ Unimpl_Unallocated
  \/ Unimpl_Unimplemented

SpecUnimpl == InitUnimpl /\ [][NextUnimpl]_vars

\* C17: after an unallocated encoding or an opcode of an unimplemented
\* group has been dispatched the simulation is in the fatal not-supported
\* state, and the general, vector and predicate registers, the flags,
\* memory and the PC are what they were before it.
C17_NotSupported ==
  instr.op \in UnimplementedGroups =>
    /\ state = "abort"
    /\ xreg = pre.xreg
    /\ vregisters = pre.vregisters
    /\ pregisters = pre.pregisters
    /\ nzcv = pre.nzcv
    /\ mem = pre.mem
    /\ pc = pre.pc

\* LSL (predicated, immediate) after ADDS: the simulation has aborted with
\* the x0, flags and PC that ADDS left.
C17_Witness ==
  /\ instr.op = "SVEBitwiseShiftPredicated" /\ instr.opcode = "LSL_z_p_zi"
  /\ Len(hist) = 2 /\ hist[1].op = "AddSubImmediate"
  /\ state = "abort"
  /\ xreg[0] # kBadBeef
  /\ pc = NatToBits(4)

----------------------------------------------------------------------------
(* Host-call pseudo-instructions *)

\* The longest program of host calls and the longest CPU feature list.
MaxHostLen == 2
MaxFeatures == 4

kInstructionSize == 4

\* The layout of the inline arguments, in bytes from the HLT.
kTraceParamsOffset == 1 * kInstructionSize
kTraceCommandOffset == 2 * kInstructionSize
kTraceLength == 3 * kInstructionSize
kLogLength == 2 * kInstructionSize
kPrintfArgCountOffset == 1 * kInstructionSize
kPrintfArgPatternListOffset == 2 * kInstructionSize
kPrintfLength == 3 * kInstructionSize
kConfigureCPUFeaturesListOffset == 1 * kInstructionSize

\* CPUFeatures::kNone as a list element, and a padding byte.
kNone == 255
kPadding == 0

AlignUp(offset, alignment) ==
  ((offset + alignment - 1) \div alignment) * alignment

AlignDown(offset, alignment) == (offset \div alignment) * alignment

\* An instruction word and a word of inline arguments.
InstrWord(op, opcode) == [kind |-> "instr", op |-> op, opcode |-> opcode]
PayloadWord(bytes) == [kind |-> "payload", bytes |-> bytes]

\* The 32-bit value v as little-endian bytes, v below 256.
Word32(v) == PayloadWord(<<v, kPadding, kPadding, kPadding>>)

RECURSIVE WordsOfBytes(_)
\* The bytes of a feature list as words, padded to the instruction size.
WordsOfBytes(bytes) ==
  IF Len(bytes) = 0 THEN <<>>
  ELSE LET padded == bytes \o [k \in 1..(kInstructionSize - Len(bytes)) |-> kPadding]
       IN IF Len(bytes) <= kInstructionSize
          THEN <<PayloadWord(padded)>>
          ELSE <<PayloadWord(SubSeq(bytes, 1, kInstructionSize))>>
               \o WordsOfBytes(SubSeq(bytes, kInstructionSize + 1, Len(bytes)))

\* The pseudo-instructions as the macro assembler emits them: HLT with
\* the opcode, then the inline arguments.
HostCalls == {"TRACE", "LOG", "PRINTF", "CPUFEATURES"}

TraceCommands == {"TRACE_ENABLE", "TRACE_DISABLE"}

ConfigureOpcodes ==
  {"kSetCPUFeaturesOpcode", "kEnableCPUFeaturesOpcode",
   "kDisableCPUFeaturesOpcode"}

HostEncodings ==
  {<<InstrWord("NOP", "NOP")>>}
    \cup {<<InstrWord("TRACE", c), Word32(1), Word32(IF c = "TRACE_ENABLE" THEN 1 ELSE 2)>> :
            c \in TraceCommands}
    \cup {<<InstrWord("LOG", "kLogOpcode"), Word32(1)>>}
    \cup {<<InstrWord("PRINTF", "kPrintfOpcode"), Word32(n), Word32(n)>> :
            n \in 0..1}
    \cup {<<InstrWord("CPUFEATURES", o)>>
            \o WordsOfBytes([k \in 1..n |-> kSomeFeature] \o <<kNone>>) :
            o \in ConfigureOpcodes, n \in {0, MaxFeatures}}
    \cup {<<InstrWord("CPUFEATURES", "kSetCPUFeaturesOpcode")>>
            \o WordsOfBytes([k \in 1..n |-> kSomeFeature] \o <<kNone>>) :
            n \in 1..(MaxFeatures - 1)}

RECURSIVE HostCode(_)
\* The code of the programs of n pseudo-instructions.
HostCode(n) ==
  IF n = 0 THEN {<<>>}
  ELSE {c \o e : c \in HostCode(n - 1), e \in HostEncodings}

\* The word of the program at address p, and the byte at offset bytes from
\* the instruction at p.
WordAt(p) ==
  LET first == BitsToNat(kCodeStart)
      a == BitsToNat(p)
  IN IF a >= first /\ a < first + kInstructionSize * Len(program.code)
          /\ (a - first) % kInstructionSize = 0
     THEN program.code[(a - first) \div kInstructionSize + 1]
     ELSE [kind |-> "unmapped", op |-> "unmapped"]

GetInstructionAtOffset(p, offset) == Add64(p, NatToBits(offset), 0)

ByteAt(p, offset) ==
  LET word == WordAt(GetInstructionAtOffset(p, AlignDown(offset, kInstructionSize)))
  IN word.bytes[(offset % kInstructionSize) + 1]

\* WritePc from a handler, then UpdateBType; IncrementPc does nothing.
WritePc(new_pc) ==
  /\ pc' = new_pc
  /\ btype' = next_btype
  /\ next_btype' = "DefaultBType"

\* Simulator::DoTrace: the flags and the command are read from the code
\* and the trace parameters, which are no part of the simulated state,
\* are set or cleared.
DoTrace ==
  LET parameters == ByteAt(pc, kTraceParamsOffset)
      command == ByteAt(pc, kTraceCommandOffset)
  IN /\ state = "run"
     /\ command \in {1, 2}
     /\ WritePc(GetInstructionAtOffset(pc, kTraceLength))
     /\ Executed([op |-> "TRACE", parameters |-> parameters])
     /\ UNCHANGED <<xreg, nzcv, mem, local_monitor, state>>

\* Simulator::DoLog: prints the registers the flags ask for.
DoLog ==
  LET parameters == ByteAt(pc, kTraceParamsOffset)
  IN /\ state = "run"
     /\ WritePc(GetInstructionAtOffset(pc, kLogLength))
     /\ Executed([op |-> "LOG", parameters |-> parameters])
     /\ UNCHANGED <<xreg, nzcv, mem, local_monitor, state>>

\* Simulator::DoPrintf: placeholder_count is the number of placeholders of
\* the host's format string and result what the host's printf returned.
DoPrintf(placeholder_count, result) ==
  LET arg_count == ByteAt(pc, kPrintfArgCountOffset)
      i == [op |-> "PRINTF", arg_count |-> arg_count]
      new_pc == GetInstructionAtOffset(pc, kPrintfLength)
  IN /\ state = "run"
     /\ IF placeholder_count # arg_count
        THEN Abort(i)
        ELSE /\ xreg' = WriteXRegister(WriteXRegister(xreg, 0, result),
                                       kLinkRegCode, new_pc)
             /\ WritePc(new_pc)
             /\ Executed(i)
             /\ UNCHANGED <<nzcv, mem, local_monitor, state>>

RECURSIVE FeatureListEnd(_, _)
\* The loop of DoConfigureCPUFeatures: the offset after the kNone that
\* ends the list read from offset.
FeatureListEnd(p, offset) ==
  IF ByteAt(p, offset) = kNone THEN offset + 1
  ELSE FeatureListEnd(p, offset + 1)

RECURSIVE FeatureList(_, _)
\* The loop of DoConfigureCPUFeatures: the features read from offset up to
\* the kNone, combined into one set.
FeatureList(p, offset) ==
  IF ByteAt(p, offset) = kNone THEN {}
  ELSE {ByteAt(p, offset)} \cup FeatureList(p, offset + 1)

\* SetCPUFeatures, CPUFeatures::Combine and CPUFeatures::Remove, by the
\* immediate of the HLT.
ConfiguredCPUFeatures(opcode, features, parameters) ==
  IF opcode = "kSetCPUFeaturesOpcode" THEN parameters
  ELSE IF opcode = "kEnableCPUFeaturesOpcode" THEN features \cup parameters
  ELSE features \ parameters

\* A handler that rounds the end of the list down.
DoConfigureCPUFeatures_AlignDown ==
  LET offset == FeatureListEnd(pc, kConfigureCPUFeaturesListOffset)
      parameters == FeatureList(pc, kConfigureCPUFeaturesListOffset)
      opcode == WordAt(pc).opcode
  IN /\ state = "run"
     /\ cpu_features' = ConfiguredCPUFeatures(opcode, cpu_features, parameters)
     /\ WritePc(GetInstructionAtOffset(pc, AlignDown(offset, kInstructionSize)))
     /\ Logged([op |-> "CPUFEATURES", offset |-> offset, features |-> cpu_features])
     /\ UNCHANGED <<xreg, nzcv, mem, local_monitor, state, saved_cpu_features_,
                    vector_length, vregisters, pregisters, fpcr>>

\* Simulator::DoConfigureCPUFeatures: the list is read up to its kNone and
\* the CPU features are set to it, extended by it or reduced by it.
DoConfigureCPUFeatures ==
  LET offset == FeatureListEnd(pc, kConfigureCPUFeaturesListOffset)
      parameters == FeatureList(pc, kConfigureCPUFeaturesListOffset)
      opcode == WordAt(pc).opcode
  IN /\ state = "run"
     /\ cpu_features' = ConfiguredCPUFeatures(opcode, cpu_features, parameters)
     /\ WritePc(GetInstructionAtOffset(pc, AlignUp(offset, kInstructionSize)))
     /\ Logged([op |-> "CPUFEATURES", offset |-> offset, features |-> cpu_features])
     /\ UNCHANGED <<xreg, nzcv, mem, local_monitor, state, saved_cpu_features_,
                    vector_length, vregisters, pregisters, fpcr>>

\* A program of pseudo-instructions, run from its first instruction.
InitHost ==
  /\ \E n \in 1..MaxHostLen : \E code \in HostCode(n) :
       program = [code |-> code]
  /\ xreg = ResetXRegs
  /\ nzcv = NoFlag
  /\ mem = PatternMem
  /\ local_monitor = MonitorClear
  /\ pc = kCodeStart
  /\ btype = "DefaultBType"
  /\ next_btype = "DefaultBType"
  /\ guard_pages = FALSE
  /\ tbi = [t \in PointerTypes |-> TRUE]
  /\ state = "run"
  /\ instr = [op |-> "reset"]
  /\ pre = [op |-> "none"]
  /\ hist = <<>>
  /\ ret = Zero
  /\ VectorsConstructed
  /\ FeaturesConstructed
  /\ OneInstance

\* Simulator::VisitException dispatches on the immediate of the HLT.
Host_NOP == WordAt(pc).op = "NOP" /\ VisitSystem_NOP
Host_Trace == WordAt(pc).op = "TRACE" /\ DoTrace
Host_Log == WordAt(pc).op = "LOG" /\ DoLog
Host_Printf ==
  /\ WordAt(pc).op = "PRINTF"
  /\ \E placeholder_count \in 0..1, result \in {NatToBits(1), AllOnes} :
       DoPrintf(placeholder_count, result)
Host_ConfigureCPUFeatures ==
  /\ WordAt(pc).op = "CPUFEATURES"
  /\ DoConfigureCPUFeatures

NextHost ==
  \/ Host_NOP
  \/ Host_Trace
  \/ Host_Log
  \/ Host_Printf
  \/ Host_ConfigureCPUFeatures

SpecHost == InitHost /\ [][NextHost]_vars

RECURSIVE PayloadEnd(_)
\* The address of the first word from p on that is no inline argument.
PayloadEnd(p) ==
  IF WordAt(p).kind = "payload"
  THEN PayloadEnd(Add64(p, NatToBits(kInstructionSize), 0))
  ELSE p

\* C18: a pseudo-instruction with inline arguments that has completed
\* left the PC at the first word after its arguments, and the PC of a
\* running program never points at a word of inline arguments.
C18_PayloadSkipped ==
  /\ state = "run" => WordAt(pc).kind # "payload"
  /\ (instr.op \in HostCalls /\ state = "run") =>
       pc = PayloadEnd(Add64(pre.pc, NatToBits(kInstructionSize), 0))

\* A feature list of MaxFeatures features and kNone, which ends one byte
\* into its second word, was skipped and the instruction after it ran.
C18_Witness ==
  /\ Len(hist) = 2
  /\ hist[1].op = "CPUFEATURES"
  /\ hist[1].offset = kConfigureCPUFeaturesListOffset + MaxFeatures + 1
  /\ hist[2].op = "PRINTF"
  /\ state = "run"
  /\ pc = Add64(kCodeStart, NatToBits(3 * kInstructionSize + kPrintfLength), 0)

----------------------------------------------------------------------------
(* Compare and branch *)

CompareBranchOps == {"CBZ_w", "CBZ_x", "CBNZ_w", "CBNZ_x"}

\* A handler that tests all 64 bits whatever the width.
VisitCompareBranch_AlwaysX(opcode, rt, offset) ==
  LET value == ReadXRegister(xreg, rt, "Reg31IsZeroRegister")
      take_branch == IF opcode \in {"CBZ_w", "CBZ_x"} THEN value = Zero
                     ELSE value # Zero
  IN /\ state = "run"
     /\ IF take_branch THEN WritePc(Add64(pc, offset, 0)) ELSE Advance
     /\ Executed([op |-> "CompareBranch", opcode |-> opcode, rt |-> rt,
                  offset |-> offset])
     /\ UNCHANGED <<xreg, nzcv, mem, local_monitor, state>>

\* Simulator::VisitCompareBranch; offset is the byte offset of the encoded
\* target (GetImmPCOffsetTarget).
VisitCompareBranch(opcode, rt, offset) ==
  LET take_branch ==
        CASE opcode = "CBZ_w" -> ReadWRegister(xreg, rt) = Zero
          [] opcode = "CBZ_x" -> ReadXRegister(xreg, rt, "Reg31IsZeroRegister") = Zero
          [] opcode = "CBNZ_w" -> ReadWRegister(xreg, rt) # Zero
          [] opcode = "CBNZ_x" -> ReadXRegister(xreg, rt, "Reg31IsZeroRegister") # Zero
  IN /\ state = "run"
     /\ IF take_branch THEN WritePc(Add64(pc, offset, 0)) ELSE Advance
     /\ Executed([op |-> "CompareBranch", opcode |-> opcode, rt |-> rt,
                  offset |-> offset])
     /\ UNCHANGED <<xreg, nzcv, mem, local_monitor, state>>

\* The number of compare-and-branch instructions executed in a row.
MaxCBSteps == 1

\* The values of the tested register: zero, nonzero in the low word only,
\* in the high word only, and in both.
CBValues == {Zero, {0}, {31}, {32}, {63}, AllOnes}

\* Forward and backward targets.
CBOffsets == {NatToBits(8), Neg64(NatToBits(4))}

InitCB ==
  /\ \E v \in CBValues, f \in {NoFlag, SomeFlags} :
       /\ program = [value |-> v]
       /\ xreg = [ResetXRegs EXCEPT ![0] = v]
       /\ nzcv = f
  /\ mem = PatternMem
  /\ local_monitor = MonitorClear
  /\ pc = kCodeStart
  /\ btype = "DefaultBType"
  /\ next_btype = "DefaultBType"
  /\ guard_pages = FALSE
  /\ tbi = [t \in PointerTypes |-> TRUE]
  /\ state = "run"
  /\ instr = [op |-> "reset"]
  /\ pre = [op |-> "none"]
  /\ hist = <<>>
  /\ ret = Zero
  /\ VectorsConstructed
  /\ FeaturesConstructed
  /\ OneInstance

CBStep == Len(hist) < MaxCBSteps

CB_CBZ ==
  /\ CBStep
  /\ \E opcode \in {"CBZ_w", "CBZ_x"}, rt \in {0, kZeroRegCode}, offset \in CBOffsets :
       VisitCompareBranch(opcode, rt, offset)

CB_CBNZ ==
  /\ CBStep
  /\ \E opcode \in {"CBNZ_w", "CBNZ_x"}, rt \in {0, kZeroRegCode}, offset \in CBOffsets :
       VisitCompareBranch(opcode, rt, offset)

NextCB ==
  \/ CB_CBZ
  \/ CB_CBNZ

SpecCB == InitCB /\ [][NextCB]_vars

\* Whether the register the instruction tested was zero at its width.
TestedZero ==
  LET full == IF instr.rt = kZeroRegCode THEN {} ELSE pre.xreg[instr.rt]
  IN IF instr.opcode \in {"CBZ_w", "CBNZ_w"}
     THEN \A b \in 0..(kWRegSize - 1) : b \notin full
     ELSE \A b \in 0..(kXRegSize - 1) : b \notin full

\* C19: after CBZ the PC is the encoded target if the register tested, the
\* low 32 bits for the W form and all 64 for the X form, was zero, and the
\* next instruction otherwise; after CBNZ the other way round; registers
\* and flags are as before.
C19_CompareBranch ==
  instr.op = "CompareBranch" =>
    LET taken == IF instr.opcode \in {"CBZ_w", "CBZ_x"} THEN TestedZero
                 ELSE ~TestedZero
    IN /\ state = "run"
       /\ pc = IF taken THEN Add64(pre.pc, instr.offset, 0)
               ELSE Add64(pre.pc, NatToBits(4), 0)
       /\ xreg = pre.xreg
       /\ nzcv = pre.nzcv
       /\ vregisters = pre.vregisters
       /\ pregisters = pre.pregisters
       /\ fpcr = pre.fpcr

\* CBZ w0 with x0 = 2^32, zero in its low word only, branched back.
C19_Witness ==
  /\ instr.op = "CompareBranch"
  /\ instr.opcode = "CBZ_w" /\ instr.rt = 0 /\ instr.offset = Neg64(NatToBits(4))
  /\ pre.xreg[0] = {32}
  /\ pc = Sub64(kCodeStart, NatToBits(4))

----------------------------------------------------------------------------
(* Successive exclusive loads *)

\* The number of instructions of a sequence of exclusive accesses of
\* differing addresses and sizes.
MaxReserveSteps == 3

\* LDXR/STXR of W and of X.
ReserveSizes == {2, 3}

InitReserve ==
  /\ xreg = ExclXRegs
  /\ nzcv = NoFlag
  /\ mem = PatternMem
  /\ local_monitor = MonitorClear
  /\ pc = Zero
  /\ btype = "DefaultBType"
  /\ next_btype = "DefaultBType"
  /\ guard_pages = FALSE
  /\ tbi = [t \in PointerTypes |-> TRUE]
  /\ state = "run"
  /\ program = [sizes |-> ReserveSizes]
  /\ instr = [op |-> "reset"]
  /\ pre = [op |-> "none"]
  /\ hist = <<>>
  /\ ret = Zero
  /\ VectorsConstructed
  /\ FeaturesConstructed
  /\ OneInstance

ReserveStep == Len(hist) < MaxReserveSteps

\* LDXR of either size at address 0 or at sp.
Reserve_LoadExclusive ==
  /\ ReserveStep
  /\ \E rn \in {2, kZeroRegCode}, size_log2 \in program.sizes :
       VisitLoadStoreExclusive(16, 3, 4, rn, TRUE, TRUE, FALSE, size_log2,
                               FALSE, FALSE)

\* STXR of either size at address 0 or at sp, the status to x16.  The
\* global monitor is asked only when the local one agrees.
Reserve_StoreExclusive ==
  /\ ReserveStep
  /\ \E rn \in {2, kZeroRegCode}, size_log2 \in program.sizes :
     \E global_pass \in
          IF LocalIsExclusive(local_monitor,
                              ReadXRegister(xreg, rn, "Reg31IsStackPointer"),
                              2 ^ size_log2)
          THEN BOOLEAN ELSE {FALSE} :
       VisitLoadStoreExclusive(16, 0, 1, rn, TRUE, FALSE, FALSE, size_log2,
                               global_pass, FALSE)

Reserve_NOP == ReserveStep /\ VisitSystem_NOP

NextReserve ==
  \/ Reserve_LoadExclusive
  \/ Reserve_StoreExclusive
  \/ Reserve_NOP

SpecReserve == InitReserve /\ [][NextReserve]_vars

\* The exclusive loads executed so far, as indices of the history.
LoadExclusives == {j \in 1..Len(hist) : IsLoadExclusive(hist[j])}

\* The last instruction is a store-exclusive to the location A of an
\* exclusive load that was followed by an exclusive load of a location B
\* of another address or size, the most recent exclusive load.
StoreToReplacedReservation ==
  /\ IsStoreExclusive(instr)
  /\ \E a \in LoadExclusives, b \in LoadExclusives :
       /\ a < b
       /\ \A k \in LoadExclusives : k <= b
       /\ hist[a].address = instr.address
       /\ hist[a].access_size = instr.access_size
       /\ \/ hist[b].address # hist[a].address
          \/ hist[b].access_size # hist[a].access_size

\* C20: a store-exclusive to A after a load-exclusive of A and a later
\* load-exclusive of a B that differs in address or size fails with status
\* 1 and memory unchanged; and whenever the local monitor holds a
\* reservation it is the one of the most recent exclusive load.
C20_ReservationReplaced ==
  /\ StoreToReplacedReservation =>
       /\ state = "run"
       /\ ReadWRegister(xreg, instr.rs) = NatToBits(1)
       /\ mem = pre.mem
  /\ local_monitor # MonitorClear =>
       \E b \in LoadExclusives :
         /\ \A k \in LoadExclusives : k <= b
         /\ local_monitor.address = hist[b].address
         /\ local_monitor.size = hist[b].access_size

\* LDXR x3, [x2]; LDXR w3, [x2]; STXR w16, x0, [x2]: the second load has
\* another size, and the store of the first size fails.
C20_Witness ==
  /\ StoreToReplacedReservation
  /\ Len(hist) = 3
  /\ hist[1].address = Zero /\ hist[1].access_size = 8
  /\ hist[2].address = Zero /\ hist[2].access_size = 4
  /\ instr.address = Zero /\ instr.access_size = 8
  /\ xreg[16] = NatToBits(1)
  /\ pre.xreg[16] # NatToBits(1)

----------------------------------------------------------------------------
(* Compare and swap pair *)

\* CompareAndSwapPairHelper that clears the monitor only when it stores.
CompareAndSwapPairHelper_ClearsOnMatch(element_size, rs, rt, rn) ==
  LET address == ReadXRegister(xreg, rn, "Reg31IsStackPointer")
      address2 == Add64(address, NatToBits(element_size), 0)
      i == [op |-> "CompareAndSwapPair", rs |-> rs, rt |-> rt, rn |-> rn,
            element_size |-> element_size, address |-> address]
      comparevalue_high == ReadRegisterT(xreg, element_size, rs + 1)
      comparevalue_low == ReadRegisterT(xreg, element_size, rs)
      newvalue_high == ReadRegisterT(xreg, element_size, rt + 1)
      newvalue_low == ReadRegisterT(xreg, element_size, rt)
      data_high == MemRead(mem, address, element_size)
      data_low == MemRead(mem, address2, element_size)
      same == data_high = comparevalue_high /\ data_low = comparevalue_low
  IN /\ state = "run"
     /\ AddrInMem(address, element_size * 2)
     /\ IF ~IsValidAtomicAccess(rn, address, element_size * 2) THEN Abort(i)
        ELSE /\ local_monitor' = IF same THEN MonitorClear ELSE local_monitor
             /\ mem' = IF same
                       THEN MemWrite(MemWrite(mem, address, element_size,
                                              newvalue_high),
                                     address2, element_size, newvalue_low)
                       ELSE mem
             /\ xreg' = WriteRegisterT(WriteRegisterT(xreg, element_size,
                                                      rs + 1, data_high),
                                       element_size, rs, data_low)
             /\ Advance
             /\ Executed(i)
             /\ UNCHANGED <<nzcv, state>>

\* Simulator::CompareAndSwapPairHelper<T> for a T of element_size bytes.
CompareAndSwapPairHelper(element_size, rs, rt, rn) ==
  LET address == ReadXRegister(xreg, rn, "Reg31IsStackPointer")
      address2 == Add64(address, NatToBits(element_size), 0)
      i == [op |-> "CompareAndSwapPair", rs |-> rs, rt |-> rt, rn |-> rn,
            element_size |-> element_size, address |-> address]
      comparevalue_high == ReadRegisterT(xreg, element_size, rs + 1)
      comparevalue_low == ReadRegisterT(xreg, element_size, rs)
      newvalue_high == ReadRegisterT(xreg, element_size, rt + 1)
      newvalue_low == ReadRegisterT(xreg, element_size, rt)
      data_high == MemRead(mem, address, element_size)
      data_low == MemRead(mem, address2, element_size)
      same == data_high = comparevalue_high /\ data_low = comparevalue_low
  IN /\ state = "run"
     /\ AddrInMem(address, element_size * 2)
     /\ IF ~IsValidAtomicAccess(rn, address, element_size * 2) THEN Abort(i)
        ELSE /\ local_monitor' = MonitorClear
             /\ mem' = IF same
                       THEN MemWrite(MemWrite(mem, address, element_size,
                                              newvalue_high),
                                     address2, element_size, newvalue_low)
                       ELSE mem
             /\ xreg' = WriteRegisterT(WriteRegisterT(xreg, element_size,
                                                      rs + 1, data_high),
                                       element_size, rs, data_low)
             /\ Advance
             /\ Executed(i)
             /\ UNCHANGED <<nzcv, state>>

----------------------------------------------------------------------------
(* Compare and swap between exclusive accesses *)

\* The number of instructions of a sequence around a compare and swap.
MaxCasMonSteps == 3

\* The first and the second word of the initial memory.
MemWord0 == MemRead(PatternMem, Zero, 4)
MemWord1 == MemRead(PatternMem, NatToBits(4), 4)

\* w0 and w1 to compare with: equal to no word of memory, to the word at
\* address 0 (CAS), and to the words at 0 and 4 in either order (CASP).
CasCompares ==
  {<<Data1, Data2>>, <<MemWord0, Data2>>, <<MemWord0, MemWord1>>,
   <<MemWord1, MemWord0>>}

\* x0, x1: the values compared; x2, x3: the new values; x4, x17, sp: the
\* addresses 0, 4 and 16; x16: the status register.
CasXRegs(compare) ==
  [c \in RegCodes |->
     CASE c = 0 -> compare[1]
       [] c = 1 -> compare[2]
       [] c = 2 -> Data1
       [] c = 3 -> Data2
       [] c = 4 -> Zero
       [] c = 17 -> NatToBits(4)
       [] c = kZeroRegCode -> NatToBits(16)
       [] OTHER -> kBadBeef]

\* The compare and swap of the program: CAS or CASP of W registers at x4,
\* x17 or sp; and the base register of its exclusive accesses.
InitCasMon ==
  /\ \E kind \in {"CAS", "CASP"}, rn \in {4, 17, kZeroRegCode},
        excl_rn \in {4, kZeroRegCode}, compare \in CasCompares :
       /\ program = [kind |-> kind, rn |-> rn, excl_rn |-> excl_rn]
       /\ xreg = CasXRegs(compare)
  /\ nzcv = NoFlag
  /\ mem = PatternMem
  /\ local_monitor = MonitorClear
  /\ pc = Zero
  /\ btype = "DefaultBType"
  /\ next_btype = "DefaultBType"
  /\ guard_pages = FALSE
  /\ tbi = [t \in PointerTypes |-> TRUE]
  /\ state = "run"
  /\ instr = [op |-> "reset"]
  /\ pre = [op |-> "none"]
  /\ hist = <<>>
  /\ ret = Zero
  /\ VectorsConstructed
  /\ FeaturesConstructed
  /\ OneInstance

CasMonStep == Len(hist) < MaxCasMonSteps

\* LDXR w3, [excl_rn]
CasMon_LoadExclusive ==
  /\ CasMonStep
  /\ VisitLoadStoreExclusive(16, 3, 4, program.excl_rn, TRUE, TRUE, FALSE, 2,
                             FALSE, FALSE)

\* STXR w16, w2, [excl_rn]
CasMon_StoreExclusive ==
  /\ CasMonStep
  /\ \E global_pass \in
          IF LocalIsExclusive(local_monitor,
                              ReadXRegister(xreg, program.excl_rn,
                                            "Reg31IsStackPointer"), 4)
          THEN BOOLEAN ELSE {FALSE} :
       VisitLoadStoreExclusive(16, 2, 3, program.excl_rn, TRUE, FALSE, FALSE,
                               2, global_pass, FALSE)

\* CAS w0, w2, [rn]
CasMon_CAS ==
  /\ CasMonStep
  /\ program.kind = "CAS"
  /\ CompareAndSwapHelper(4, 0, 2, program.rn)

\* CASP w0, w1, w2, w3, [rn]
CasMon_CASP ==
  /\ CasMonStep
  /\ program.kind = "CASP"
  /\ CompareAndSwapPairHelper(4, 0, 2, program.rn)

NextCasMon ==
  \/ CasMon_LoadExclusive
  \/ CasMon_StoreExclusive
  \/ CasMon_CAS
  \/ CasMon_CASP

SpecCasMon == InitCasMon /\ [][NextCasMon]_vars

IsCompareAndSwap(i) == i.op \in {"CompareAndSwap", "CompareAndSwapPair"}

\* The last instruction is a store-exclusive, a load-exclusive came before
\* it and a compare and swap after the last load-exclusive.
StoreAfterCompareAndSwap ==
  /\ IsStoreExclusive(instr)
  /\ \E j \in 1..(Len(hist) - 1), k \in 1..(Len(hist) - 1) :
       /\ j < k
       /\ IsLoadExclusive(hist[j])
       /\ IsCompareAndSwap(hist[k])
       /\ \A l \in (k + 1)..(Len(hist) - 1) : ~IsLoadExclusive(hist[l])

\* C21: a compare and swap, single or pair, that has completed has cleared
\* the local monitor whatever its address and whether or not it stored;
\* a store-exclusive after a load-exclusive with such an instruction in
\* between writes status 1 and leaves memory unchanged.
C21_CompareAndSwapClears ==
  /\ (IsCompareAndSwap(instr) /\ state = "run") => local_monitor = MonitorClear
  /\ StoreAfterCompareAndSwap =>
       /\ state = "run"
       /\ ReadWRegister(xreg, instr.rs) = NatToBits(1)
       /\ mem = pre.mem

\* LDXR at address 0, a CASP at sp whose comparison fails, STXR at
\* address 0: status 1.
C21_Witness ==
  /\ StoreAfterCompareAndSwap
  /\ Len(hist) = 3
  /\ IsLoadExclusive(hist[1]) /\ hist[1].address = Zero
  /\ hist[2].op = "CompareAndSwapPair" /\ hist[2].address = NatToBits(16)
  /\ pre.mem = PatternMem
  /\ instr.address = Zero
  /\ xreg[16] = NatToBits(1)

----------------------------------------------------------------------------
(* Plain loads and stores between exclusive accesses *)

\* Simulator::VisitLoadLiteral for LDR_x_lit, the literal offset bytes from
\* the instruction; maybe_clear is whether MaybeClear clears the local
\* monitor.
VisitLoadLiteral(rt, offset, maybe_clear) ==
  LET address == Add64(pc, NatToBits(offset), 0)
      i == [op |-> "LoadLiteral", mnemonic |-> "LDR_x_lit", rt |-> rt,
            address |-> address]
  IN /\ state = "run"
     /\ IF ~AddrInMem(address, 8) THEN HostFault(i, xreg)
        ELSE /\ xreg' = WriteXRegister(xreg, rt, MemRead(mem, address, 8))
             /\ local_monitor' = IF maybe_clear THEN MonitorClear
                                 ELSE local_monitor
             /\ Advance
             /\ Executed(i)
             /\ UNCHANGED <<nzcv, mem, state>>

\* The number of instructions of a sequence around a plain access.
MaxPlainSteps == 3

\* The plain access of the program: LDR or STR of an X register, based on
\* x17 (address 4) or sp (address 16), in one of the addressing modes.
InitPlain ==
  /\ \E op \in {"LDR_x", "STR_x"}, rn \in {17, kZeroRegCode},
        addrmode \in AddrModes :
       program = [mnemonic |-> op, rn |-> rn, addrmode |-> addrmode]
  /\ xreg = ExclXRegs
  /\ nzcv = SomeFlags
  /\ mem = PatternMem
  /\ local_monitor = MonitorClear
  /\ pc = Zero
  /\ btype = "DefaultBType"
  /\ next_btype = "DefaultBType"
  /\ guard_pages = FALSE
  /\ tbi = [t \in PointerTypes |-> TRUE]
  /\ state = "run"
  /\ instr = [op |-> "reset"]
  /\ pre = [op |-> "none"]
  /\ hist = <<>>
  /\ ret = Zero
  /\ VectorsConstructed
  /\ FeaturesConstructed
  /\ OneInstance

PlainStep == Len(hist) < MaxPlainSteps

\* LDXR w4, [x2]
Plain_LoadExclusive ==
  /\ PlainStep
  /\ VisitLoadStoreExclusive(16, 4, 4, 2, TRUE, TRUE, FALSE, 2, FALSE, FALSE)

\* STXR w16, w0, [x2]
Plain_StoreExclusive ==
  /\ PlainStep
  /\ \E global_pass \in
          IF LocalIsExclusive(local_monitor, xreg[2], 4)
          THEN BOOLEAN ELSE {FALSE} :
       VisitLoadStoreExclusive(16, 0, 1, 2, TRUE, FALSE, FALSE, 2,
                               global_pass, FALSE)

\* LDR x3, [rn, #8] in the program's addressing mode.
Plain_Load ==
  /\ PlainStep
  /\ program.mnemonic = "LDR_x"
  /\ \E maybe_clear \in BOOLEAN :
       LoadStoreHelper("LDR_x", 3, program.rn, 8, program.addrmode, maybe_clear)

\* STR x1, [rn, #8] in the program's addressing mode.
Plain_Store ==
  /\ PlainStep
  /\ program.mnemonic = "STR_x"
  /\ \E maybe_clear \in BOOLEAN :
       LoadStoreHelper("STR_x", 1, program.rn, 8, program.addrmode, maybe_clear)

\* LDR x3, <literal 8 bytes on>
Plain_Literal ==
  /\ PlainStep
  /\ program.mnemonic = "LDR_x" /\ program.addrmode = "Offset"
  /\ \E maybe_clear \in BOOLEAN : VisitLoadLiteral(3, 8, maybe_clear)

NextPlain ==
  \/ Plain_LoadExclusive
  \/ Plain_StoreExclusive
  \/ Plain_Load
  \/ Plain_Store
  \/ Plain_Literal

SpecPlain == InitPlain /\ [][NextPlain]_vars

IsPlainLoad(i) ==
  \/ i.op = "LoadStore" /\ i.mnemonic = "LDR_x"
  \/ i.op = "LoadLiteral"
IsPlainStore(i) == i.op = "LoadStore" /\ i.mnemonic = "STR_x"

\* The address of the plain access executed last and the base register
\* after it.
PlainAddress ==
  IF instr.op = "LoadLiteral" THEN instr.address
  ELSE IF instr.addrmode = "PostIndex" THEN pre.xreg[instr.rn]
  ELSE Add64(pre.xreg[instr.rn], NatToBits(instr.offset), 0)
PlainBase ==
  IF instr.addrmode = "Offset" THEN pre.xreg[instr.rn]
  ELSE Add64(pre.xreg[instr.rn], NatToBits(instr.offset), 0)

\* The plain access executed last changed only its destination register,
\* the addressed bytes and the written-back base register, the local
\* monitor apart.
PlainFrame ==
  /\ nzcv = pre.nzcv /\ fpcr = pre.fpcr
  /\ vregisters = pre.vregisters /\ pregisters = pre.pregisters
  /\ btype = pre.next_btype
  /\ pc = Add64(pre.pc, NatToBits(4), 0)
  /\ IF IsPlainStore(instr)
     THEN /\ MemRead(mem, PlainAddress, 8) = pre.xreg[instr.rt]
          /\ \A a \in MemAddrs :
               (a < BitsToNat(PlainAddress) \/ a >= BitsToNat(PlainAddress) + 8)
                 => mem[a] = pre.mem[a]
     ELSE mem = pre.mem
  /\ \A c \in RegCodes :
       xreg[c] = IF IsPlainLoad(instr) /\ c = instr.rt
                 THEN MemRead(pre.mem, PlainAddress, 8)
                 ELSE IF instr.op = "LoadStore" /\ c = instr.rn THEN PlainBase
                 ELSE pre.xreg[c]

\* The last instruction is a store-exclusive that follows a load-exclusive
\* of its location with plain accesses and nothing else in between, at
\* least one of them a store (for "STR_x") or a load (for "LDR_x").
StoreFollowsLoadWithPlain(Kind) ==
  /\ IsStoreExclusive(instr)
  /\ \E j \in 1..(Len(hist) - 2) :
       /\ IsLoadExclusive(hist[j])
       /\ hist[j].address = instr.address
       /\ hist[j].access_size = instr.access_size
       /\ \A k \in (j + 1)..(Len(hist) - 1) :
            IsPlainLoad(hist[k]) \/ IsPlainStore(hist[k])
       /\ \E k \in (j + 1)..(Len(hist) - 1) :
            IF Kind = "STR_x" THEN IsPlainStore(hist[k]) ELSE IsPlainLoad(hist[k])

\* C22 as stated: a plain load or store changes only its destination, the
\* addressed bytes and the base register written back, except that a plain
\* store clears the local monitor, so that a store-exclusive after it
\* fails, while a plain load leaves the reservation as it was.
C22_AsStated ==
  /\ ((IsPlainLoad(instr) \/ IsPlainStore(instr)) /\ state = "run") =>
       /\ PlainFrame
       /\ IsPlainStore(instr) => local_monitor = MonitorClear
       /\ IsPlainLoad(instr) => local_monitor = pre.local_monitor
  /\ StoreFollowsLoadWithPlain("STR_x") =>
       /\ ReadWRegister(xreg, instr.rs) = NatToBits(1)
       /\ mem = pre.mem

\* C22, amended: a plain load or store changes only its destination, the
\* addressed bytes and the base register written back, except that either
\* of them may clear the local monitor; a store-exclusive that follows a
\* load-exclusive with plain loads or stores in between fails when the
\* monitor was cleared, and otherwise succeeds exactly when the global
\* monitor agrees.
C22_PlainAccess ==
  /\ ((IsPlainLoad(instr) \/ IsPlainStore(instr)) /\ state = "run") =>
       /\ PlainFrame
       /\ local_monitor \in {pre.local_monitor, MonitorClear}
  /\ \A Kind \in {"LDR_x", "STR_x"} :
       StoreFollowsLoadWithPlain(Kind) =>
         /\ state = "run"
         /\ pre.local_monitor \in
              {MonitorClear, MarkExclusive(instr.address, instr.access_size)}
         /\ IF pre.local_monitor # MonitorClear /\ instr.global_pass
            THEN ReadWRegister(xreg, instr.rs) = Zero /\ StoredRt
            ELSE ReadWRegister(xreg, instr.rs) = NatToBits(1) /\ mem = pre.mem

\* LDXR, a pre-indexed LDR that cleared the monitor, STXR: status 1.
C22_Witness ==
  /\ StoreFollowsLoadWithPlain("LDR_x")
  /\ Len(hist) = 3
  /\ hist[2].op = "LoadStore" /\ hist[2].addrmode = "PreIndex"
  /\ pre.local_monitor = MonitorClear
  /\ pre.xreg[17] = NatToBits(12)
  /\ pre.xreg[3] = MemRead(PatternMem, NatToBits(12), 8)
  /\ xreg[16] = NatToBits(1)

----------------------------------------------------------------------------
(* The lifetime of the BType *)

\* The number of instructions of a program of branches and other
\* instructions.
MaxBTSteps == 2

InitBT ==
  /\ program = [name |-> "BType lifetime"]
  /\ xreg = BTIXRegs
  /\ nzcv = NoFlag
  /\ mem = PatternMem
  /\ local_monitor = MonitorClear
  /\ pc = Zero
  /\ btype = "DefaultBType"
  /\ next_btype = "DefaultBType"
  /\ guard_pages \in BOOLEAN
  /\ tbi = [t \in PointerTypes |-> TRUE]
  /\ state = "run"
  /\ instr = [op |-> "reset"]
  /\ pre = [op |-> "none"]
  /\ hist = <<>>
  /\ ret = Zero
  /\ VectorsConstructed
  /\ FeaturesConstructed
  /\ OneInstance

BTStep == Len(hist) < MaxBTSteps

\* BR x1, BR x16, BLR x1, RET
BT_Branch ==
  /\ BTStep
  /\ \E b \in {<<"BR", 1>>, <<"BR", 16>>, <<"BLR", 1>>, <<"RET", kLinkRegCode>>} :
       VisitUnconditionalBranchToRegister(b[1], b[2], kZeroRegCode)

BT_Hint == BTStep /\ \E hint \in {"BTI_c", "BTI_jc"} : VisitSystem_BTI(hint)
BT_NOP == BTStep /\ VisitSystem_NOP
BT_ADDS == BTStep /\ VisitAddSubImmediate("ADD", TRUE, TRUE, 0, 1, 1, FALSE)
BT_MOVZ == BTStep /\ VisitMoveWideImmediate("MOVZ", TRUE, 0, 1, 0)
BT_CBZ == BTStep /\ \E rt \in {1, kZeroRegCode} : VisitCompareBranch("CBZ_x", rt, NatToBits(8))
BT_LDR == BTStep /\ LoadStoreHelper("LDR_x", 0, 1, 8, "Offset", FALSE)
BT_CAS == BTStep /\ CompareAndSwapHelper(4, 0, 2, 1)
BT_ResetState == BTStep /\ ResetState

NextBT ==
  \/ BT_Branch
  \/ BT_Hint
  \/ BT_NOP
  \/ BT_ADDS
  \/ BT_MOVZ
  \/ BT_CBZ
  \/ BT_LDR
  \/ BT_CAS
  \/ BT_ResetState

SpecBT == InitBT /\ [][NextBT]_vars

IsIndirectBranch(i) == i.op = "BranchToRegister"

\* C23: between instructions the next BType is Default; the BType an
\* instruction is about to observe is other than Default only if the
\* instruction executed last was an indirect branch, so the BType a branch
\* set is gone after the one instruction that followed it; and after a
\* reset both are Default.
C23_BTypeLifetime ==
  /\ next_btype = "DefaultBType"
  /\ (state = "run" /\ btype # "DefaultBType") => IsIndirectBranch(instr)
  /\ (state = "run" /\ ~IsIndirectBranch(instr)) => btype = "DefaultBType"
  /\ instr.op \in {"reset", "ResetState"} =>
       btype = "DefaultBType" /\ next_btype = "DefaultBType"

\* BLR x1 set the BType BranchAndLink, the load after it observed it, and
\* the BType is Default again.
C23_Witness ==
  /\ Len(hist) = 2
  /\ IsIndirectBranch(hist[1]) /\ hist[1].form = "BLR"
  /\ instr.op = "LoadStore"
  /\ pre.btype = "BranchAndLink"
  /\ btype = "DefaultBType"
  /\ state = "run"

----------------------------------------------------------------------------
(* SVE predicated arithmetic on D lanes *)

\* The number of D lanes of the Z registers.
LaneCountD == GetVectorLengthInBytes(vector_length) \div kDRegSizeInBytes

\* LogicPRegister::IsActive for D lanes: the lowest predicate bit of the
\* lane's eight; a P register is held in 16-bit chunks.
IsActive(pg, lane) ==
  LET bit == kDRegSizeInBytes * lane
      chunk == pg.value[bit \div 16]
  IN (chunk \div (2 ^ (bit % 16))) % 2 = 1

\* mov_merging(vform, dst, pg, src): the active lanes of src into dst.
mov_merging(dst, pg, src) ==
  [dst EXCEPT !.value =
     [lane \in DOMAIN dst.value |->
        IF lane < LaneCountD /\ IsActive(pg, lane) THEN src[lane]
        ELSE dst.value[lane]]]

\* mov_zeroing(vform, dst, pg, src): the active lanes of src into dst, zero
\* into the others.
mov_zeroing(dst, pg, src) ==
  [dst EXCEPT !.value =
     [lane \in DOMAIN dst.value |->
        IF lane >= LaneCountD THEN dst.value[lane]
        ELSE IF IsActive(pg, lane) THEN src[lane]
        ELSE Zero]]

\* The lane-wise operations add, sub, the bitwise ones, mul, mla and mls.
Mul64(a, b) == And(Mul128(a, b), Bits(kXRegSize))

BinaryResult(opcode, zdn, zm) ==
  [lane \in 0..(LaneCountD - 1) |->
     CASE opcode = "ADD_z_p_zz" -> Add64(zdn[lane], zm[lane], 0)
       [] opcode = "SUB_z_p_zz" -> Sub64(zdn[lane], zm[lane])
       [] opcode = "SUBR_z_p_zz" -> Sub64(zm[lane], zdn[lane])
       [] opcode = "AND_z_p_zz" -> And(zdn[lane], zm[lane])
       [] opcode = "EOR_z_p_zz" -> Xor(zdn[lane], zm[lane])
       [] opcode = "MUL_z_p_zz" -> Mul64(zdn[lane], zm[lane])]

\* mla(vform, dst, za, zn, zm) and mls: za + zn * zm and za - zn * zm.
mla(za, zn, zm) ==
  [lane \in 0..(LaneCountD - 1) |->
     Add64(za[lane], Mul64(zn[lane], zm[lane]), 0)]
mls(za, zn, zm) ==
  [lane \in 0..(LaneCountD - 1) |->
     Sub64(za[lane], Mul64(zn[lane], zm[lane]))]

SVEIntBinaryArithmeticPredicatedOps ==
  {"ADD_z_p_zz", "SUB_z_p_zz", "SUBR_z_p_zz", "AND_z_p_zz", "EOR_z_p_zz",
   "MUL_z_p_zz"}

SVEIntMulAddPredicatedOps ==
  {"MLA_z_p_zzz", "MLS_z_p_zzz", "MAD_z_p_zzz", "MSB_z_p_zzz"}

\* An instruction that wrote the vector register zd only.
WroteZ(i, zd, value) ==
  /\ vregisters' = [vregisters EXCEPT ![zd] = value]
  /\ Advance
  /\ Recorded(i)
  /\ UNCHANGED <<xreg, nzcv, mem, local_monitor, state, vector_length,
                 pregisters, fpcr>>

\* A handler that writes the result to every lane.
VisitSVEIntBinaryArithmeticPredicated_AllLanes(opcode, zdn, zm, pg) ==
  LET result == BinaryResult(opcode, vregisters[zdn].value, vregisters[zm].value)
      all == [lane \in 0..(LaneCountD - 1) |-> 257]
      i == [op |-> "SVEIntBinaryArithmeticPredicated", opcode |-> opcode,
            zd |-> zdn, zn |-> zdn, zm |-> zm, pg |-> pg]
  IN /\ state = "run"
     /\ opcode \in SVEIntBinaryArithmeticPredicatedOps
     /\ WroteZ(i, zdn, mov_merging(vregisters[zdn], [value |-> all], result))

\* Simulator::VisitSVEIntBinaryArithmeticPredicated, D lanes.
VisitSVEIntBinaryArithmeticPredicated(opcode, zdn, zm, pg) ==
  LET result == BinaryResult(opcode, vregisters[zdn].value, vregisters[zm].value)
      i == [op |-> "SVEIntBinaryArithmeticPredicated", opcode |-> opcode,
            zd |-> zdn, zn |-> zdn, zm |-> zm, pg |-> pg]
  IN /\ state = "run"
     /\ opcode \in SVEIntBinaryArithmeticPredicatedOps
     /\ WroteZ(i, zdn, mov_merging(vregisters[zdn], pregisters[pg], result))

\* Simulator::VisitSVEIntMulAddPredicated, D lanes.
VisitSVEIntMulAddPredicated(opcode, zd, zn, zm, pg) ==
  LET d == vregisters[zd].value
      n == vregisters[zn].value
      m == vregisters[zm].value
      result == CASE opcode = "MLA_z_p_zzz" -> mla(d, n, m)
                  [] opcode = "MLS_z_p_zzz" -> mls(d, n, m)
                  [] opcode = "MAD_z_p_zzz" -> mla(n, d, m)
                  [] opcode = "MSB_z_p_zzz" -> mls(n, d, m)
      i == [op |-> "SVEIntMulAddPredicated", opcode |-> opcode, zd |-> zd,
            zn |-> zn, zm |-> zm, pg |-> pg]
  IN /\ state = "run"
     /\ opcode \in SVEIntMulAddPredicatedOps
     /\ WroteZ(i, zd, mov_merging(vregisters[zd], pregisters[pg], result))

\* Simulator::VisitSVEIntReduction, MOVPRFX_z_p_z; merging is bit 16.
VisitSVEIntReduction_MOVPRFX(zd, pg, zn, merging) ==
  LET i == [op |-> "SVEIntReduction", opcode |-> "MOVPRFX_z_p_z", zd |-> zd,
            zn |-> zn, zm |-> zn, pg |-> pg, merging |-> merging]
  IN /\ state = "run"
     /\ WroteZ(i, zd, IF merging
                      THEN mov_merging(vregisters[zd], pregisters[pg],
                                       vregisters[zn].value)
                      ELSE mov_zeroing(vregisters[zd], pregisters[pg],
                                       vregisters[zn].value))

\* The number of predicated instructions executed in a row.
MaxPredSteps == 1

\* Predicates of the two D lanes of a 128-bit vector: none, the first, the
\* second and both, with bits of no lane's lowest set as well.
PredicateChunks == {0, 1, 256, 257, 254}

\* The operands, as LDR (vector) and LDR (predicate) leave them: z0, z1
\* and z31 with distinct lanes, p0 the governing predicate.
PredOperands ==
  [z \in ZRegCodes |->
     [size_in_bytes |-> GetVectorLengthInBytes(kZRegMinSize),
      value |-> [lane \in 0..1 |->
                   IF z = 0 THEN IF lane = 0 THEN NatToBits(5) ELSE AllOnes
                   ELSE NatToBits(z + 2 * lane + 2)]]]

InitPred ==
  /\ xreg = ResetXRegs
  /\ nzcv = NoFlag
  /\ mem = PatternMem
  /\ local_monitor = MonitorClear
  /\ pc = Zero
  /\ btype = "DefaultBType"
  /\ next_btype = "DefaultBType"
  /\ guard_pages = FALSE
  /\ tbi = [t \in PointerTypes |-> TRUE]
  /\ state = "run"
  /\ \E chunk \in PredicateChunks, merging \in BOOLEAN :
       /\ program = [chunk |-> chunk, merging |-> merging]
       /\ pregisters =
            [p \in PRegCodes |->
               [size_in_bytes |-> GetPredicateLengthInBytes(kZRegMinSize),
                value |-> [lane \in 0..0 |-> IF p = 0 THEN chunk ELSE 256 * lane + p]]]
  /\ vector_length = kZRegMinSize
  /\ vregisters = PredOperands
  /\ fpcr = DefaultFpcr
  /\ FeaturesConstructed
  /\ OneInstance
  /\ instr = [op |-> "reset"]
  /\ pre = [op |-> "none"]
  /\ hist = <<>>
  /\ ret = Zero

PredStep == Len(hist) < MaxPredSteps

\* ADD, SUB, SUBR, AND, EOR, MUL z0.d, p0/m, z0.d, zm.d
Pred_Binary ==
  /\ PredStep
  /\ \E opcode \in SVEIntBinaryArithmeticPredicatedOps, zm \in {1, 31} :
       VisitSVEIntBinaryArithmeticPredicated(opcode, 0, zm, 0)

\* MLA, MLS, MAD, MSB z0.d, p0/m, z1.d, z31.d
Pred_MulAdd ==
  /\ PredStep
  /\ \E opcode \in SVEIntMulAddPredicatedOps :
       VisitSVEIntMulAddPredicated(opcode, 0, 1, 31, 0)

\* MOVPRFX z0.d, p0/m, zn.d and MOVPRFX z0.d, p0/z, zn.d
Pred_MOVPRFX ==
  /\ PredStep
  /\ \E zn \in {1, 31} : VisitSVEIntReduction_MOVPRFX(0, 0, zn, program.merging)

NextPred ==
  \/ Pred_Binary
  \/ Pred_MulAdd
  \/ Pred_MOVPRFX

SpecPred == InitPred /\ [][NextPred]_vars

PredicatedOps ==
  {"SVEIntBinaryArithmeticPredicated", "SVEIntMulAddPredicated",
   "SVEIntReduction"}

\* Lane `lane` of the governing predicate of the instruction executed last
\* is active: bit 8 * lane of the predicate register.
LaneActive(lane) ==
  LET chunk == pre.pregisters[instr.pg].value[(8 * lane) \div 16]
      position == (8 * lane) % 16
      below == chunk % (2 ^ (position + 1))
  IN below >= 2 ^ position

\* What the instruction executed last computes for a lane from the
\* registers before it.
LaneResult(lane) ==
  LET d == pre.vregisters[instr.zd].value[lane]
      n == pre.vregisters[instr.zn].value[lane]
      m == pre.vregisters[instr.zm].value[lane]
      o == instr.opcode
      new == vregisters[instr.zd].value[lane]
  IN CASE o = "ADD_z_p_zz" -> Sub64(new, m) = d
       [] o = "SUB_z_p_zz" -> Add64(new, m, 0) = d
       [] o = "SUBR_z_p_zz" -> Add64(new, d, 0) = m
       [] o = "AND_z_p_zz" -> new = d \cap m
       [] o = "EOR_z_p_zz" -> new = (d \ m) \cup (m \ d)
       [] o = "MUL_z_p_zz" -> new = Mul128(d, m) \cap Bits(kXRegSize)
       [] o = "MLA_z_p_zzz" -> Sub64(new, d) = Mul128(n, m) \cap Bits(kXRegSize)
       [] o = "MLS_z_p_zzz" -> Sub64(d, new) = Mul128(n, m) \cap Bits(kXRegSize)
       [] o = "MAD_z_p_zzz" -> Sub64(new, n) = Mul128(d, m) \cap Bits(kXRegSize)
       [] o = "MSB_z_p_zzz" -> Sub64(n, new) = Mul128(d, m) \cap Bits(kXRegSize)
       [] o = "MOVPRFX_z_p_z" -> new = n

----------------------------------------------------------------------------
(* Saving and restoring the CPU features *)

MaxFeatLen == 4

\* Simulator::DoSaveCPUFeatures: a copy of the features is pushed.
DoSaveCPUFeatures ==
  /\ state = "run"
  /\ saved_cpu_features_' = Append(saved_cpu_features_, cpu_features)
  /\ Advance
  /\ Logged([op |-> "SAVE", features |-> cpu_features])
  /\ UNCHANGED <<xreg, nzcv, mem, local_monitor, state, cpu_features,
                 vector_length, vregisters, pregisters, fpcr>>

\* The outcomes of back() and pop_back() on an empty vector, which the
\* language leaves undefined: the process ends, or it goes on with some
\* feature set and nothing saved.
RestoreFromNothing(i) ==
  /\ \/ state' = "host_fault" /\ cpu_features' = cpu_features
     \/ state' = "run" /\ cpu_features' \in SUBSET AllCPUFeatures
  /\ saved_cpu_features_' = <<>>
  /\ Advance
  /\ Logged(i)
  /\ UNCHANGED <<xreg, nzcv, mem, local_monitor,
                 vector_length, vregisters, pregisters, fpcr>>

\* A restore that takes the oldest copy.
DoRestoreCPUFeatures_Oldest ==
  LET i == [op |-> "RESTORE", features |-> cpu_features]
  IN /\ state = "run"
     /\ IF saved_cpu_features_ = <<>>
        THEN RestoreFromNothing(i)
        ELSE /\ cpu_features' = Head(saved_cpu_features_)
             /\ saved_cpu_features_' = Tail(saved_cpu_features_)
             /\ Advance
             /\ Logged(i)
             /\ UNCHANGED <<xreg, nzcv, mem, local_monitor, state,
                            vector_length, vregisters, pregisters, fpcr>>

\* Simulator::DoRestoreCPUFeatures: SetCPUFeatures(saved_cpu_features_.
\* back()), then pop_back().
DoRestoreCPUFeatures ==
  LET i == [op |-> "RESTORE", features |-> cpu_features]
      n == Len(saved_cpu_features_)
  IN /\ state = "run"
     /\ IF saved_cpu_features_ = <<>>
        THEN RestoreFromNothing(i)
        ELSE /\ cpu_features' = saved_cpu_features_[n]
             /\ saved_cpu_features_' = SubSeq(saved_cpu_features_, 1, n - 1)
             /\ Advance
             /\ Logged(i)
             /\ UNCHANGED <<xreg, nzcv, mem, local_monitor, state,
                            vector_length, vregisters, pregisters, fpcr>>

\* The pseudo-instructions that save, restore and configure the features,
\* as the macro assembler emits them.
FeatEncodings ==
  {<<InstrWord("SAVE", "kSaveCPUFeaturesOpcode")>>,
   <<InstrWord("RESTORE", "kRestoreCPUFeaturesOpcode")>>,
   <<InstrWord("CPUFEATURES", "kSetCPUFeaturesOpcode")>>
     \o WordsOfBytes(<<kOtherFeature, kNone>>),
   <<InstrWord("CPUFEATURES", "kEnableCPUFeaturesOpcode")>>
     \o WordsOfBytes(<<kSomeFeature, kNone>>),
   <<InstrWord("CPUFEATURES", "kDisableCPUFeaturesOpcode")>>
     \o WordsOfBytes(<<kSomeFeature, kNone>>)}

RECURSIVE FeatCode(_)
\* The code of the programs of n of them.
FeatCode(n) ==
  IF n = 0 THEN {<<>>}
  ELSE {c \o e : c \in FeatCode(n - 1), e \in FeatEncodings}

InitFeat ==
  /\ \E code \in FeatCode(MaxFeatLen) : program = [code |-> code]
  /\ xreg = ResetXRegs
  /\ nzcv = NoFlag
  /\ mem = PatternMem
  /\ local_monitor = MonitorClear
  /\ pc = kCodeStart
  /\ btype = "DefaultBType"
  /\ next_btype = "DefaultBType"
  /\ guard_pages = FALSE
  /\ tbi = [t \in PointerTypes |-> TRUE]
  /\ state = "run"
  /\ instr = [op |-> "reset"]
  /\ pre = [op |-> "none"]
  /\ hist = <<>>
  /\ ret = Zero
  /\ VectorsConstructed
  /\ FeaturesConstructed
  /\ OneInstance

\* Simulator::VisitException dispatches on the immediate of the HLT.
Feat_Save == WordAt(pc).op = "SAVE" /\ DoSaveCPUFeatures
Feat_Restore == WordAt(pc).op = "RESTORE" /\ DoRestoreCPUFeatures
Feat_Configure == WordAt(pc).op = "CPUFEATURES" /\ DoConfigureCPUFeatures

NextFeat ==
  \/ Feat_Save
  \/ Feat_Restore
  \/ Feat_Configure

SpecFeat == InitFeat /\ [][NextFeat]_vars

\* The saves less the restores among the first k instructions executed.
SaveDepth(k) ==
  Cardinality({j \in 1..k : hist[j].op = "SAVE"})
    - Cardinality({j \in 1..k : hist[j].op = "RESTORE"})

\* Every restore among the first k instructions had an earlier unmatched
\* save.
EveryRestoreMatched(k) == \A j \in 1..k : SaveDepth(j) >= 0

\* The save the restore executed k-th matches: the last one before it that
\* was executed at the depth the restore returns to.
MatchingSave(k) ==
  LET saves == {j \in 1..(k - 1) :
                  hist[j].op = "SAVE" /\ SaveDepth(j - 1) = SaveDepth(k)}
  IN CHOOSE j \in saves : \A other \in saves : other <= j

\* The feature set that was active after the k-th instruction.
FeaturesAfter(k) ==
  IF k < Len(hist) THEN hist[k + 1].features ELSE cpu_features

\* C25: in a sequence of save, set/enable/disable and restore
\* pseudo-instructions in which every restore has an earlier unmatched
\* save, each restore sets the active features to exactly the set that was
\* active at its matching save, the number of stored copies is always the
\* number of saves less the number of restores, and neither save nor
\* restore changes a register, a flag or memory.
C25_FeatureStack ==
  \A k \in 1..Len(hist) :
    EveryRestoreMatched(k) =>
      /\ hist[k].op = "RESTORE" =>
           FeaturesAfter(k) = hist[MatchingSave(k)].features
      /\ k = Len(hist) =>
           /\ Len(saved_cpu_features_) = SaveDepth(k)
           /\ instr.op \in {"SAVE", "RESTORE"} =>
                /\ xreg = pre.xreg /\ nzcv = pre.nzcv /\ mem = pre.mem
                /\ vregisters = pre.vregisters /\ pregisters = pre.pregisters
                /\ fpcr = pre.fpcr /\ state = pre.state

\* Save, disable, save, restore: the restore brings back the reduced set,
\* the copy of the second save, and the copy of the first stays stored.
C25_Witness ==
  /\ Len(hist) = 4
  /\ hist[1].op = "SAVE" /\ hist[2].op = "CPUFEATURES"
  /\ hist[3].op = "SAVE" /\ hist[4].op = "RESTORE"
  /\ hist[3].features = {kOtherFeature}
  /\ cpu_features = {kOtherFeature}
  /\ saved_cpu_features_ = <<AllCPUFeatures>>

----------------------------------------------------------------------------
(* Two simulator instances on one memory *)

\* What a Simulator owns, and what the handler it is executing holds:
\* everything but the memory, which the instances of a process share.
InstanceState(id) ==
  [id |-> id, xreg |-> xreg, nzcv |-> nzcv, local_monitor |-> local_monitor,
   pc |-> pc, btype |-> btype, next_btype |-> next_btype,
   vector_length |-> vector_length, vregisters |-> vregisters,
   pregisters |-> pregisters, fpcr |-> fpcr, cpu_features |-> cpu_features,
   saved_cpu_features_ |-> saved_cpu_features_, ret |-> ret]

\* The host runs the other instance's thread: the variables of the model
\* hold the state of the instance that executes.
SwitchInstance ==
  LET other == instances.parked[1]
  IN /\ state = "run"
     /\ instances' = [running |-> other.id,
                      parked |-> <<InstanceState(instances.running)>>]
     /\ xreg' = other.xreg
     /\ nzcv' = other.nzcv
     /\ local_monitor' = other.local_monitor
     /\ pc' = other.pc
     /\ btype' = other.btype
     /\ next_btype' = other.next_btype
     /\ vector_length' = other.vector_length
     /\ vregisters' = other.vregisters
     /\ pregisters' = other.pregisters
     /\ fpcr' = other.fpcr
     /\ cpu_features' = other.cpu_features
     /\ saved_cpu_features_' = other.saved_cpu_features_
     /\ ret' = other.ret
     /\ UNCHANGED <<mem, guard_pages, tbi, state, instr, pre, hist, program>>

\* The state of instance id, executing or not.
Instance(id) ==
  IF instances.running = id THEN InstanceState(id)
  ELSE instances.parked[1]

\* Two instances at the start of the same code, LDXR then STXR at address
\* 0 with the status to x16; instance 1 is to store Data1 and instance 2
\* Data2.
InitTwo ==
  /\ xreg = ExclXRegs
  /\ nzcv = NoFlag
  /\ mem = PatternMem
  /\ local_monitor = MonitorClear
  /\ pc = Zero
  /\ btype = "DefaultBType"
  /\ next_btype = "DefaultBType"
  /\ guard_pages = FALSE
  /\ tbi = [t \in PointerTypes |-> TRUE]
  /\ state = "run"
  /\ program \in ExclShapes
  /\ instr = [op |-> "reset"]
  /\ pre = [op |-> "none"]
  /\ hist = <<>>
  /\ ret = Zero
  /\ VectorsConstructed
  /\ FeaturesConstructed
  /\ instances =
       [running |-> 1,
        parked |-> <<[InstanceState(2) EXCEPT
                        !.xreg = [ExclXRegs EXCEPT ![0] = Data2, ![1] = Data1]]>>]

\* LDXR, LDXRB, LDXRH, LDXP w3, (w4,) [x2]: the first instruction.
Two_LoadExclusive ==
  /\ pc = Zero
  /\ VisitLoadStoreExclusive(16, 3, 4, 2, TRUE, TRUE, program.is_pair,
                             program.size_log2, FALSE, FALSE)

\* STXR, STXRB, STXRH, STXP w16, w0, (w1,) [x2]: the second instruction.
\* The global monitor is asked only when the local one agrees.
Two_StoreExclusive ==
  /\ pc = NatToBits(kInstructionSize)
  /\ \E global_pass \in
          IF LocalIsExclusive(local_monitor, Zero, ProgramAccessSize)
          THEN BOOLEAN ELSE {FALSE} :
       VisitLoadStoreExclusive(16, 0, 1, 2, TRUE, FALSE, program.is_pair,
                               program.size_log2, global_pass, FALSE)

Two_Switch == SwitchInstance

NextTwo ==
  \/ Two_LoadExclusive
  \/ Two_StoreExclusive
  \/ Two_Switch

SpecTwo == InitTwo /\ [][NextTwo]_vars

\* Both instances loaded exclusively before either stored exclusively, and
\* both have stored.
BothLoadedThenBothStored ==
  /\ Len(hist) = 4
  /\ hist[1].is_load /\ hist[2].is_load
  /\ ~hist[3].is_load /\ ~hist[4].is_load

\* The exclusive store of instance id reported success.
TwoSucceeded(id) == ReadWRegister(Instance(id).xreg, 16) = Zero

\* C26: when two instances sharing one memory both load-exclusive the same
\* address and then both store-exclusive to it, at most one of the two
\* store-exclusives succeeds, in every interleaving.
C26_AtMostOneSucceeds ==
  BothLoadedThenBothStored => ~(TwoSucceeded(1) /\ TwoSucceeded(2))

----------------------------------------------------------------------------
(* Atomic memory instructions of two instances *)

\* The widths of the LDADD forms in bytes, and the values memory holds
\* before: zero, and the largest value of the width.
RmwSizes == {1, 2, 4, 8}
RmwData(element_size) == {Zero, Bits(8 * element_size)}

\* x1: the addend 1; x2: the address 0; x3: the destination.
RmwXRegs == [ExclXRegs EXCEPT ![1] = NatToBits(1)]

\* Simulator::AtomicMemorySimpleHelper<T> up to and including
\* T data = Memory::Read<T>(address): the handler holds data.
AtomicMemorySimpleHelper_Read(element_size, rn) ==
  LET address == ReadXRegister(xreg, rn, "Reg31IsStackPointer")
  IN /\ state = "run"
     /\ ret = <<>>
     /\ AddrInMem(address, element_size)
     /\ IsValidAtomicAccess(rn, address, element_size)
     /\ ret' = <<MemRead(mem, address, element_size)>>
     /\ UNCHANGED <<xreg, nzcv, mem, local_monitor, pc, btype, next_btype,
                    guard_pages, tbi, state, instr, pre, hist, program,
                    vector_length, vregisters, pregisters, fpcr,
                    cpu_features, saved_cpu_features_, instances>>

\* Simulator::AtomicMemorySimpleHelper<T> from there on, LDADDOp:
\* result = data + value, Memory::Write<T>(address, result) and
\* WriteRegister<T>(rt, data).
AtomicMemorySimpleHelper_Write(element_size, rs, rt, rn) ==
  LET address == ReadXRegister(xreg, rn, "Reg31IsStackPointer")
      i == [op |-> "AtomicMemory", name |-> "LDADD", rs |-> rs, rt |-> rt,
            rn |-> rn, element_size |-> element_size, address |-> address]
      value == ReadRegisterT(xreg, element_size, rs)
      data == ret[1]
      result == Add64(data, value, 0)
  IN /\ state = "run"
     /\ ret # <<>>
     /\ mem' = MemWrite(mem, address, element_size,
                        And(result, Bits(8 * element_size)))
     /\ xreg' = WriteRegisterTypeT(xreg, element_size, FALSE, rt, data)
     /\ ret' = <<>>
     /\ Advance
     /\ instr' = i
     /\ pre' = Snapshot
     /\ hist' = Append(hist, i)
     /\ UNCHANGED <<nzcv, local_monitor, state, guard_pages, tbi, program,
                    vector_length, vregisters, pregisters, fpcr,
                    cpu_features, saved_cpu_features_, instances>>

\* Two instances, each about to execute LDADD w1, w3, [x2] (or its B, H or
\* X form).
InitRmw ==
  /\ \E element_size \in RmwSizes : \E data \in RmwData(element_size) :
       /\ program = [element_size |-> element_size, data |-> data]
       /\ mem = MemWrite(PatternMem, Zero, element_size, data)
  /\ xreg = RmwXRegs
  /\ nzcv = NoFlag
  /\ local_monitor = MonitorClear
  /\ pc = Zero
  /\ btype = "DefaultBType"
  /\ next_btype = "DefaultBType"
  /\ guard_pages = FALSE
  /\ tbi = [t \in PointerTypes |-> TRUE]
  /\ state = "run"
  /\ instr = [op |-> "reset"]
  /\ pre = [op |-> "none"]
  /\ hist = <<>>
  /\ ret = <<>>
  /\ VectorsConstructed
  /\ FeaturesConstructed
  /\ instances = [running |-> 1, parked |-> <<InstanceState(2)>>]

Rmw_Read ==
  /\ pc = Zero
  /\ AtomicMemorySimpleHelper_Read(program.element_size, 2)

Rmw_Write ==
  /\ pc = Zero
  /\ AtomicMemorySimpleHelper_Write(program.element_size, 1, 3, 2)

\* The host may run the other instance's thread between any two accesses.
Rmw_Switch == SwitchInstance

NextRmw ==
  \/ Rmw_Read
  \/ Rmw_Write
  \/ Rmw_Switch

SpecRmw == InitRmw /\ [][NextRmw]_vars

\* Both instances have executed their LDADD.
RmwBothDone == \A id \in 1..2 : Instance(id).pc = NatToBits(kInstructionSize)

\* The old value instance id received.
RmwOld(id) == ReadRegisterT(Instance(id).xreg, program.element_size, 3)

\* C29: when two instances sharing one memory each execute one LDADD of 1
\* on the same address, in every interleaving the final memory value is
\* the initial value plus 2 and the two instances receive different old
\* values.
C29_AtomicAcrossInstances ==
  RmwBothDone =>
    /\ MemRead(mem, Zero, program.element_size) =
         And(Add64(program.data, NatToBits(2), 0), Bits(8 * program.element_size))
    /\ RmwOld(1) # RmwOld(2)

----------------------------------------------------------------------------
(* NEON structure loads and stores: the base register *)

MaxNeonSteps == 1

\* Simulator::NEONLoadStoreSingleStructHelper for LD1 and ST1 {vt.d}[lane],
\* [xn] and their post-index forms: kFormat2D, NEONLoadStoreSingle1, so
\* scale is 1 and the lane size 8.
NEONLoadStoreSingleStructHelper(mnemonic, rt, lane, rn, rm, addr_mode) ==
  LET addr == ReadXRegister(xreg, rn, "Reg31IsStackPointer")
      scale == 1
      lane_size == kDRegSizeInBytes
      updated == Add64(addr,
                       IF rm = 31 THEN NatToBits(scale * lane_size)
                       ELSE ReadXRegister(xreg, rm, "Reg31IsZeroRegister"), 0)
      i == [op |-> "NEONLoadStoreSingleStruct", mnemonic |-> mnemonic,
            rt |-> rt, lane |-> lane, rn |-> rn, rm |-> rm, count |-> scale,
            offset |-> 0, addrmode |-> addr_mode]
  IN /\ state = "run"
     /\ addr_mode \in {"Offset", "PostIndex"}
     /\ mnemonic \in {"LD1", "ST1"}
     /\ IF ~AddrInMem(addr, lane_size)
        THEN HostFault(i, xreg)
        ELSE /\ IF mnemonic = "LD1"
                THEN /\ vregisters' =
                          [vregisters EXCEPT
                             ![rt].value[lane] = MemRead(mem, addr, lane_size)]
                     /\ mem' = mem
                ELSE /\ mem' = MemWrite(mem, addr, lane_size,
                                        vregisters[rt].value[lane])
                     /\ vregisters' = vregisters
             /\ xreg' = IF addr_mode = "PostIndex"
                        THEN WriteXRegister(xreg, rn, updated)
                        ELSE xreg
             /\ Advance
             /\ Recorded(i)
             /\ UNCHANGED <<nzcv, local_monitor, state, vector_length,
                            pregisters, fpcr>>

\* Simulator::VisitNEONLoadStoreMultiStruct and its post-index form.
VisitNEONLoadStoreMultiStruct(mnemonic, count, rt, rn) ==
  NEONLoadStoreMultiStructHelper(mnemonic, count, rt, rn, 0, "Offset")
VisitNEONLoadStoreMultiStructPostIndex(mnemonic, count, rt, rn, rm) ==
  NEONLoadStoreMultiStructHelper(mnemonic, count, rt, rn, rm, "PostIndex")

\* Simulator::VisitNEONLoadStoreSingleStruct and its post-index form.
VisitNEONLoadStoreSingleStruct(mnemonic, rt, lane, rn) ==
  NEONLoadStoreSingleStructHelper(mnemonic, rt, lane, rn, 0, "Offset")
VisitNEONLoadStoreSingleStructPostIndex(mnemonic, rt, lane, rn, rm) ==
  NEONLoadStoreSingleStructHelper(mnemonic, rt, lane, rn, rm, "PostIndex")

\* One LD1 or ST1 with x2 (holding 0) or the stack pointer (holding 16) as
\* the base and, post-indexed, x17 (holding 4) or the implied immediate as
\* the increment.
NeonPrograms ==
  [mnemonic : {"LD1", "ST1"}, rt : {0, 31}, rn : {2, 31}, rm : {17, 31}]

InitNeon ==
  /\ program \in NeonPrograms
  /\ xreg = ExclXRegs
  /\ nzcv = NoFlag
  /\ mem = PatternMem
  /\ local_monitor = MonitorClear
  /\ pc = Zero
  /\ btype = "DefaultBType"
  /\ next_btype = "DefaultBType"
  /\ guard_pages = FALSE
  /\ tbi = [t \in PointerTypes |-> TRUE]
  /\ state = "run"
  /\ instr = [op |-> "reset"]
  /\ pre = [op |-> "none"]
  /\ hist = <<>>
  /\ ret = Zero
  /\ VectorsConstructed
  /\ FeaturesConstructed
  /\ OneInstance

NeonStep == Len(hist) < MaxNeonSteps

Neon_MultiStruct ==
  /\ NeonStep
  /\ \E count \in 1..2 :
       VisitNEONLoadStoreMultiStruct(program.mnemonic, count, program.rt,
                                     program.rn)

Neon_MultiStructPostIndex ==
  /\ NeonStep
  /\ \E count \in 1..2 :
       VisitNEONLoadStoreMultiStructPostIndex(program.mnemonic, count,
                                              program.rt, program.rn,
                                              program.rm)

Neon_SingleStruct ==
  /\ NeonStep
  /\ \E lane \in 0..1 :
       VisitNEONLoadStoreSingleStruct(program.mnemonic, program.rt, lane,
                                      program.rn)

Neon_SingleStructPostIndex ==
  /\ NeonStep
  /\ \E lane \in 0..1 :
       VisitNEONLoadStoreSingleStructPostIndex(program.mnemonic, program.rt,
                                               lane, program.rn, program.rm)

NextNeon ==
  \/ Neon_MultiStruct
  \/ Neon_MultiStructPostIndex
  \/ Neon_SingleStruct
  \/ Neon_SingleStructPostIndex

SpecNeon == InitNeon /\ [][NextNeon]_vars

\* The number of bytes a structure load or store transfers: count Q
\* registers, or one D lane.
TransferredBytes(i) ==
  IF i.op = "NEONLoadStoreMultiStruct" THEN i.count * kQRegSizeInBytes
  ELSE kDRegSizeInBytes

\* C27: after a NEON structure load or store with post-index addressing
\* the base register Rn, the stack pointer when Rn is 31, holds the base
\* plus the value of Rm or, when Rm is 31, plus the number of bytes
\* transferred; in offset mode the base register is unchanged.
C27_PostIndexBase ==
  (instr.op \in {"NEONLoadStoreMultiStruct", "NEONLoadStoreSingleStruct"}
     /\ state = "run") =>
    LET base == pre.xreg[instr.rn]
        increment == IF instr.rm = 31 THEN NatToBits(TransferredBytes(instr))
                     ELSE pre.xreg[instr.rm]
    IN xreg[instr.rn] = IF instr.addrmode = "PostIndex"
                        THEN Add64(base, increment, 0)
                        ELSE base

----------------------------------------------------------------------------
(* Compare and swap of a register pair *)

MaxCaspSteps == 2

\* The element of the initial memory at address 0 and the one after it.
CaspElement0(element_size) == MemRead(PatternMem, Zero, element_size)
CaspElement1(element_size) ==
  MemRead(PatternMem, NatToBits(element_size), element_size)

\* Rs and Rs+1 to compare with: equal to no element, to the first element
\* only, and to the two elements at address 0 in either order.
CaspCompares(element_size) ==
  {<<Data1, Data2>>,
   <<CaspElement0(element_size), Data2>>,
   <<CaspElement0(element_size), CaspElement1(element_size)>>,
   <<CaspElement1(element_size), CaspElement0(element_size)>>}

\* CASP of W or X registers, (x0, x1) compared and (x2, x3) to be written,
\* at x4, x17 or sp.
InitCasp ==
  /\ \E element_size \in {4, 8}, rn \in {4, 17, kZeroRegCode} :
     \E compare \in CaspCompares(element_size) :
       /\ program = [element_size |-> element_size, rn |-> rn]
       /\ xreg = CasXRegs(compare)
  /\ nzcv = NoFlag
  /\ mem = PatternMem
  /\ local_monitor = MonitorClear
  /\ pc = Zero
  /\ btype = "DefaultBType"
  /\ next_btype = "DefaultBType"
  /\ guard_pages = FALSE
  /\ tbi = [t \in PointerTypes |-> TRUE]
  /\ state = "run"
  /\ instr = [op |-> "reset"]
  /\ pre = [op |-> "none"]
  /\ hist = <<>>
  /\ ret = Zero
  /\ VectorsConstructed
  /\ FeaturesConstructed
  /\ OneInstance

CaspStep == Len(hist) < MaxCaspSteps

Casp_CASP ==
  /\ CaspStep
  /\ CompareAndSwapPairHelper(program.element_size, 0, 2, program.rn)

Casp_NOP == CaspStep /\ VisitSystem_NOP

NextCasp ==
  \/ Casp_CASP
  \/ Casp_NOP

SpecCasp == InitCasp /\ [][NextCasp]_vars

\* C28: CompareAndSwapPair compares Rs with the element at the address
\* and Rs+1 with the element at address + element size, writes Rt to the
\* address and Rt+1 to address + element size iff both match and leaves
\* both elements unchanged otherwise, and always returns the element read
\* from the address in Rs and the one read from address + element size in
\* Rs+1.
C28_EvenRegisterLowerAddress ==
  (instr.op = "CompareAndSwapPair" /\ state = "run") =>
    LET size == instr.element_size
        address2 == Add64(instr.address, NatToBits(size), 0)
        first == MemRead(pre.mem, instr.address, size)
        second == MemRead(pre.mem, address2, size)
        both_match ==
          /\ ReadRegisterT(pre.xreg, size, instr.rs) = first
          /\ ReadRegisterT(pre.xreg, size, instr.rs + 1) = second
    IN /\ mem = IF both_match
                THEN MemWrite(MemWrite(pre.mem, instr.address, size,
                                       ReadRegisterT(pre.xreg, size, instr.rt)),
                              address2, size,
                              ReadRegisterT(pre.xreg, size, instr.rt + 1))
                ELSE pre.mem
       /\ ReadRegisterT(xreg, size, instr.rs) = first
       /\ ReadRegisterT(xreg, size, instr.rs + 1) = second

----------------------------------------------------------------------------
(* Increment and decrement by predicate count *)

MaxIncSteps == 1

\* An IncDecN that wraps where it should saturate.
IncDecN_Wraps(acc, delta, n, is_saturating, is_signed) ==
  LET mask == Bits(n)
      result == And(Add64(And(acc, mask), delta, 0), mask)
  IN IF (n - 1) \in result /\ is_signed THEN Or(result, Not(mask)) ELSE result

\* Simulator::IncDecN(acc, delta, n, is_saturating, is_signed), delta an
\* int64_t in two's complement.
IncDecN(acc, delta, n, is_saturating, is_signed) ==
  LET sign_mask == {n - 1}
      mask == Bits(n)
      acc_n == And(acc, mask)
      wrapped == And(Add64(acc_n, delta, 0), mask)
      acc_negative == And(acc_n, sign_mask) # Zero
      delta_negative == (kXRegSize - 1) \in delta
      wrapped_negative == And(wrapped, sign_mask) # Zero
      signed_overflow ==
        (acc_negative = delta_negative) /\ (acc_negative # wrapped_negative)
      result ==
        IF ~is_saturating THEN wrapped
        ELSE IF is_signed
        THEN IF ~signed_overflow THEN wrapped
             ELSE IF wrapped_negative THEN And(mask, Not(sign_mask))
             ELSE Or(Not(mask), sign_mask)
        ELSE IF delta_negative /\ ULT(acc_n, wrapped) THEN Zero
        ELSE IF ~delta_negative /\ delta # Zero /\ ULT(wrapped, acc_n) THEN mask
        ELSE wrapped
      result_negative ==
        IF is_saturating /\ is_signed /\ signed_overflow
        THEN ~wrapped_negative
        ELSE wrapped_negative
  IN IF result_negative /\ is_signed THEN Or(result, Not(mask)) ELSE result

\* The scalar forms of VisitSVEIncDecByPredicateCount with what the handler
\* decodes from bits 18, 17, 16 and 10: is_saturating, decrement, is_signed
\* and the width.
SVEIncDecByPredicateCountForms ==
  {[mnemonic |-> "INCP_r_p_r", is_saturating |-> FALSE, decrement |-> FALSE,
    is_signed |-> TRUE, width |-> kXRegSize],
   [mnemonic |-> "DECP_r_p_r", is_saturating |-> FALSE, decrement |-> TRUE,
    is_signed |-> FALSE, width |-> kXRegSize]} \cup
  {[mnemonic |-> m.name, is_saturating |-> TRUE, decrement |-> m.decrement,
    is_signed |-> m.is_signed, width |-> w] :
     m \in {[name |-> "SQINCP", decrement |-> FALSE, is_signed |-> TRUE],
            [name |-> "SQDECP", decrement |-> TRUE, is_signed |-> TRUE],
            [name |-> "UQINCP", decrement |-> FALSE, is_signed |-> FALSE],
            [name |-> "UQDECP", decrement |-> TRUE, is_signed |-> FALSE]},
     w \in {kWRegSize, kXRegSize}}

\* CountActiveLanes(vform, pg) for D lanes.
CountActiveLanes(pg) ==
  Cardinality({lane \in 0..(LaneCountD - 1) : IsActive(pg, lane)})

\* Simulator::VisitSVEIncDecByPredicateCount, the forms on a general
\* register, with D lanes counted.
VisitSVEIncDecByPredicateCount(form, rd, pg) ==
  LET count == CountActiveLanes(pregisters[pg])
      delta == IF form.decrement THEN Neg64(NatToBits(count))
               ELSE NatToBits(count)
      acc == ReadXRegister(xreg, rd, "Reg31IsZeroRegister")
      i == [op |-> "SVEIncDecByPredicateCount", mnemonic |-> form.mnemonic,
            rd |-> rd, pg |-> pg, delta |-> delta, n |-> form.width,
            is_saturating |-> form.is_saturating, is_signed |-> form.is_signed]
  IN /\ state = "run"
     /\ form \in SVEIncDecByPredicateCountForms
     /\ xreg' = WriteXRegister(xreg, rd,
                               IncDecN(acc, delta, form.width,
                                       form.is_saturating, form.is_signed))
     /\ Advance
     /\ Executed(i)
     /\ UNCHANGED <<nzcv, mem, local_monitor, state>>

\* One instruction of a form on x0 and p0, x0 a value around 0, 2^31, 2^32
\* or 2^63 and p0 with no, one or both D lanes active.
InitInc ==
  /\ \E form \in SVEIncDecByPredicateCountForms, acc \in BoundaryValues,
        chunk \in {0, 1, 257} :
       /\ program = [form |-> form]
       /\ xreg = [ResetXRegs EXCEPT ![0] = acc]
       /\ pregisters =
            [p \in PRegCodes |->
               [size_in_bytes |-> GetPredicateLengthInBytes(kZRegMinSize),
                value |-> [h \in 0..0 |-> IF p = 0 THEN chunk ELSE 0]]]
  /\ nzcv = NoFlag
  /\ mem = PatternMem
  /\ local_monitor = MonitorClear
  /\ pc = Zero
  /\ btype = "DefaultBType"
  /\ next_btype = "DefaultBType"
  /\ guard_pages = FALSE
  /\ tbi = [t \in PointerTypes |-> TRUE]
  /\ state = "run"
  /\ instr = [op |-> "reset"]
  /\ pre = [op |-> "none"]
  /\ hist = <<>>
  /\ ret = Zero
  /\ vector_length = kZRegMinSize
  /\ vregisters = PredOperands
  /\ fpcr = DefaultFpcr
  /\ FeaturesConstructed
  /\ OneInstance

IncStep == Len(hist) < MaxIncSteps

Inc_ByPredicateCount ==
  /\ IncStep
  /\ VisitSVEIncDecByPredicateCount(program.form, 0, 0)

Inc_NOP == IncStep /\ VisitSystem_NOP

NextInc ==
  \/ Inc_ByPredicateCount
  \/ Inc_NOP

SpecInc == InitInc /\ [][NextInc]_vars

\* The exact sum of an n-bit accumulator and an n-bit two's-complement
\* delta, bit by bit: its low n bits, the carry out of them, and its sign
\* when the accumulator is read as signed.
ExactLow(acc, delta, n) == SumBits(And(acc, Bits(n)), And(delta, Bits(n)), 0, n)
ExactCarry(acc, delta, n) ==
  CarryInto(And(acc, Bits(n)), And(delta, Bits(n)), 0, n)
ExactNegative(acc, delta, n) ==
  (Bit(acc, n - 1) + Bit(delta, n - 1) + ExactCarry(acc, delta, n)) % 2 = 1

\* What C30 says IncDecN returns.
IncDecExpected(acc, delta, n, is_saturating, is_signed) ==
  LET low == ExactLow(acc, delta, n)
      negative == ExactNegative(acc, delta, n)
      delta_negative == (n - 1) \in delta
      carry == ExactCarry(acc, delta, n) = 1
  IN IF ~is_saturating THEN low
     ELSE IF is_signed
     THEN IF negative /\ (n - 1) \notin low
          THEN SignExtend({n - 1}, n)                 \* below -2^(n-1)
          ELSE IF ~negative /\ (n - 1) \in low
          THEN Bits(n - 1)                            \* above 2^(n-1) - 1
          ELSE SignExtend(low, n)
     ELSE IF delta_negative /\ ~carry THEN Zero       \* below 0
          ELSE IF ~delta_negative /\ carry THEN Bits(n)  \* above 2^n - 1
          ELSE low

\* C30: for n in {32, 64}, IncDecN returns, when saturating and signed, the
\* sum of the n-bit sign-extended accumulator and delta clamped to
\* [-2^(n-1), 2^(n-1) - 1] and sign-extended to 64 bits; when saturating
\* and unsigned, (acc mod 2^n) + delta clamped to [0, 2^n - 1],
\* zero-extended; and when not saturating, (acc + delta) mod 2^n.
C30_IncDecN ==
  instr.op = "SVEIncDecByPredicateCount" =>
    xreg[instr.rd] =
      IncDecExpected(pre.xreg[instr.rd], instr.delta, instr.n,
                     instr.is_saturating, instr.is_signed)

\* SQINCP x0, p0.d, w0 with w0 = 0x7fffffff and both lanes active: the sum
\* is clamped to 2^31 - 1.
C30_Witness ==
  /\ instr.op = "SVEIncDecByPredicateCount"
  /\ instr.mnemonic = "SQINCP" /\ instr.n = kWRegSize
  /\ instr.delta = NatToBits(2)
  /\ pre.xreg[0] = Bits(kWRegSize - 1)
  /\ xreg[0] = Bits(kWRegSize - 1)

====
